---- MODULE Spec2Model ----
(***************************************************************************)
(* ImageProcessor: the ingest -> enqueue -> consume -> transform ->        *)
(* finalize pipeline.  The registry (images table), the blob store and the *)
(* Kafka topic are the shared state; the Upload and Delete handlers and    *)
(* the consumer loop with ProcessImage are the processes, one step per     *)
(* call they make on a store.                                              *)
(***************************************************************************)
EXTENDS Integers, Sequences, FiniteSets, TLC

\* ------------------------------------------------------------------ bounds
\* Number of ids repo.GenerateID can hand out in one run of the pipeline.
MaxImages == 2
\* Number of ids repo.GenerateID can hand out in one run of the listing.
MaxListed == 3
\* Number of consumer processes in the consumer group.
NumWorkers == 1
\* Number of partitions of the topic.
MaxPartitions == 1
\* Number of times a consumer process may die and be started again.
MaxCrashes == 1
\* Number of records a foreign producer may append to the topic.
MaxForeign == 1
\* Number of calls on the registry, the blob store or the broker that may
\* fail with an I/O error in one run.
MaxFaults == 1
\* Largest number of partitions of a topic the producer writes to.
MaxTopicPartitions == 2
\* Number of SendTask calls made on the producer directly.
MaxSends == 3

\* ------------------------------------------------------- program constants
\* config.Load: the defaults of the image section.
DefaultMaxFileSize == 10485760
DefaultThumbnailWidth == 200
DefaultThumbnailHeight == 200
DefaultProcessedWidth == 800
DefaultProcessedHeight == 800

\* --------------------------------------------------------------- strings
\* A Go string is a sequence of one-character strings, so that lower-casing
\* and taking the extension are computed, not assumed.  "" is << >>.
EmptyString == << >>

UpperChars == <<"A","B","C","D","E","F","G","H","I","J","K","L","M",
                "N","O","P","Q","R","S","T","U","V","W","X","Y","Z">>
LowerChars == <<"a","b","c","d","e","f","g","h","i","j","k","l","m",
                "n","o","p","q","r","s","t","u","v","w","x","y","z">>

\* strings.ToLower, one character.
ToLowerChar(c) ==
    IF \E i \in 1..Len(UpperChars) : UpperChars[i] = c
    THEN LowerChars[CHOOSE i \in 1..Len(UpperChars) : UpperChars[i] = c]
    ELSE c

\* strings.ToLower.
ToLower(s) == [i \in 1..Len(s) |-> ToLowerChar(s[i])]

\* filepath.Ext: the suffix beginning at the final dot of the final path
\* element; empty when that element has no dot.
Ext(path) ==
    LET dots == {i \in 1..Len(path) :
                    /\ path[i] = "."
                    /\ \A j \in i..Len(path) : path[j] # "/"}
    IN  IF dots = {} THEN EmptyString
        ELSE LET d == CHOOSE i \in dots : \A k \in dots : k <= i
             IN  SubSeq(path, d, Len(path))

DotJpg  == <<".","j","p","g">>
DotJpeg == <<".","j","p","e","g">>
DotPng  == <<".","p","n","g">>
DotGif  == <<".","g","i","f">>

\* domain.ImageFormat
FormatJPEG == "jpeg"
FormatPNG  == "png"
FormatGIF  == "gif"

\* domain.ProcessingStatus
StatusPending    == "pending"
StatusProcessing == "processing"
StatusCompleted  == "completed"
StatusFailed     == "failed"

\* Errors, by the text or the sentinel the code returns.
NoError           == "nil"
ErrInvalidFormat  == "invalid image format"
ErrImageNotFound  == "image not found"
ErrInvalidImageID == "invalid image id"
ErrInvalidImagePath == "invalid image path"
ErrFileTooLarge   == "file size exceeds maximum allowed size"
ErrUnsupported    == "unsupported format: invalid image format"
ErrSaveOriginal   == "failed to save original file"
ErrDecode         == "failed to decode image"
ErrCreateRecord   == "failed to create image record"
ErrSendTask       == "failed to send processing task"

\* A parseFormat that takes every other extension for a JPEG, as
\* getExtension's default does.
parseFormatDefaulting(ext) ==
    IF ext = DotPng THEN [format |-> FormatPNG, err |-> NoError]
    ELSE IF ext = DotGif THEN [format |-> FormatGIF, err |-> NoError]
    ELSE [format |-> FormatJPEG, err |-> NoError]

\* parseFormat: the format of a lower-cased extension, or ErrInvalidFormat.
parseFormat(ext) ==
    IF ext = DotJpg \/ ext = DotJpeg THEN [format |-> FormatJPEG, err |-> NoError]
    ELSE IF ext = DotPng THEN [format |-> FormatPNG, err |-> NoError]
    ELSE IF ext = DotGif THEN [format |-> FormatGIF, err |-> NoError]
    ELSE [format |-> "", err |-> ErrInvalidFormat]

\* getExtension: the extension the derived blobs of a format are written with.
getExtension(format) ==
    IF format = FormatJPEG THEN DotJpg
    ELSE IF format = FormatPNG THEN DotPng
    ELSE IF format = FormatGIF THEN DotGif
    ELSE DotJpg

\* filepath.Join(dir, id+ext): a blob path is the directory, the filename
\* stem and the extension.  The empty path "" is EmptyString.
JoinPath(dir, id, ext) == <<dir, id, ext>>

\* ------------------------------------------------------------ file bytes
\* The bytes of a file: the encoding they are in and the picture's size.
\* Bytes that are no picture at all (or a file cut short) are Junk.
Pic(enc, w, h) == [enc |-> enc, w |-> w, h |-> h]
Junk == [enc |-> "junk", w |-> 0, h |-> 0]

\* decodeImageForDimensions / decodeImage: jpeg.Decode, png.Decode or
\* gif.Decode by the format; bytes in another encoding do not decode.
decodeImage(bytes, format) ==
    IF format \in {FormatJPEG, FormatPNG, FormatGIF}
    THEN IF bytes.enc = format
         THEN [ok |-> TRUE, w |-> bytes.w, h |-> bytes.h]
         ELSE [ok |-> FALSE, w |-> 0, h |-> 0]
    ELSE [ok |-> FALSE, w |-> 0, h |-> 0]

\* A resize that fits the picture into width x height keeping its aspect
\* ratio (what resize.Thumbnail does for a larger picture).
ResizeToFit(width, height, ow, oh) ==
    IF ow * height <= oh * width
    THEN [w |-> (ow * height) \div oh, h |-> height]
    ELSE [w |-> width, h |-> (oh * width) \div ow]

\* resize.Resize(width, height, img, Lanczos3) of github.com/nfnt/resize: the
\* size of the picture it returns.  A target of 0 on one axis keeps the
\* aspect ratio (uint(0.7 + old/scale)); 0 on both returns the input.
Resize(width, height, ow, oh) ==
    LET w == IF width # 0 THEN width
             ELSE IF height = 0 THEN ow
             ELSE (7 * oh + 10 * ow * height) \div (10 * oh)
        h == IF height # 0 THEN height
             ELSE IF width = 0 THEN oh
             ELSE (7 * ow + 10 * oh * width) \div (10 * ow)
    IN  [w |-> w, h |-> h]

\* ------------------------------------------------------------------ ids
\* repo.GenerateID: uuid.New().String(), a fresh non-empty string per call.
IdPool == [i \in 1..MaxListed |-> <<"id", i>>]
AllIDs == {IdPool[i] : i \in 1..MaxImages}

Workers    == 1..NumWorkers
Partitions == 1..MaxPartitions

\* A value that is no record of the program (nil pointer, no message).
Nil == [nil |-> TRUE]

\* ---------------------------------------------------------------- state
VARIABLES
    cfg,        \* config.Config.Image, loaded once by config.Load
    rows,       \* the images table: id -> row
    blobs,      \* the blob store: path -> bytes of the file at that path
    topic,      \* the Kafka topic: partition -> the records appended to it
    committed,  \* the consumer group's committed offset of each partition
    pos,        \* the owning reader's fetch position in each partition
    owner,      \* the consumer process each partition is assigned to
    clock,      \* time.Now() as read by Upload
    nextId,     \* the next id of IdPool that GenerateID returns
    upc,        \* Upload: where the handler is
    ureq,       \* Upload: the multipart file and header of the call
    uloc,       \* Upload: its locals (id, ext, format, originalPath, image)
    dpc,        \* Delete: where the handler is
    dloc,       \* Delete: its locals (id, img)
    wpc,        \* consumer.Start of each process: where the loop is
    wmsg,       \* consumer.Start: the message fetched
    wtask,      \* consumer.Start: the task deserialized from it
    wimg,       \* ProcessImage: img, the row as loaded and then modified
    wout,       \* ProcessImage: the resized pictures, or the error met
    perr,       \* consumer.Start: what ProcessImage returned
    cancelled,  \* whether the consumer context of each process is cancelled
    crashes,    \* how many times a consumer process died
    foreign,    \* how many records a foreign producer appended
    app,        \* App.Start: where it is, and the shutdown steps it has made
    faults,     \* how many calls on a store or the broker failed
    ret,        \* the call that returned in the last step, and what it returned
    hist        \* what has happened so far (observation only)

vars == <<cfg, rows, blobs, topic, committed, pos, owner, clock, nextId,
          upc, ureq, uloc, dpc, dloc, wpc, wmsg, wtask, wimg, wout, perr,
          cancelled, crashes, foreign, app, faults, ret, hist>>

storeVars  == <<rows, blobs, topic>>
uploadVars == <<upc, ureq, uloc, clock, nextId>>
deleteVars == <<dpc, dloc>>
workerVars == <<wpc, wmsg, wtask, wimg, wout, perr>>
queueVars  == <<committed, pos, owner>>
envVars    == <<cancelled, crashes, foreign, app>>

\* ------------------------------------------------------ functions as maps
\* The map f with key k set to v, and with key k removed.
Put(f, k, v) == [x \in DOMAIN f \cup {k} |-> IF x = k THEN v ELSE f[x]]
Drop(f, k)   == [x \in DOMAIN f \ {k} |-> f[x]]

\* ---------------------------------------------------------- the registry
\* imageRepo.Create: INSERT INTO images.
RepoCreate(tbl, img) == Put(tbl, img.ID, img)

\* A lookup that returns an empty record, and no error, for an id that
\* has no row.
GetByIDOrEmpty(tbl, id) ==
    IF id \in DOMAIN tbl THEN [img |-> tbl[id], err |-> NoError]
    ELSE [img |-> [ID |-> id, OriginalPath |-> EmptyString,
                   ProcessedPath |-> EmptyString, ThumbnailPath |-> EmptyString,
                   Status |-> StatusPending, Format |-> FormatJPEG,
                   OriginalWidth |-> 0, OriginalHeight |-> 0,
                   ProcessedWidth |-> 0, ProcessedHeight |-> 0, CreatedAt |-> 0],
          err |-> NoError]

\* imageRepo.GetByID: the row, or ErrImageNotFound when there is none.
GetByID(tbl, id) ==
    IF id \in DOMAIN tbl THEN [img |-> tbl[id], err |-> NoError]
    ELSE [img |-> Nil, err |-> ErrImageNotFound]

\* An UPDATE that inserts the row when no row has the id.
RepoUpdateOrInsert(tbl, img) ==
    IF img.ID \in DOMAIN tbl
    THEN [tbl EXCEPT ![img.ID] =
            [@ EXCEPT !.ProcessedPath   = img.ProcessedPath,
                      !.ThumbnailPath   = img.ThumbnailPath,
                      !.Status          = img.Status,
                      !.ProcessedWidth  = img.ProcessedWidth,
                      !.ProcessedHeight = img.ProcessedHeight]]
    ELSE [i \in DOMAIN tbl \cup {img.ID} |-> IF i = img.ID THEN img ELSE tbl[i]]

\* An UPDATE that leaves the status of a completed row as it is.
RepoUpdateKeepingCompleted(tbl, img) ==
    IF img.ID \in DOMAIN tbl
    THEN [tbl EXCEPT ![img.ID] =
            [@ EXCEPT !.ProcessedPath   = img.ProcessedPath,
                      !.ThumbnailPath   = img.ThumbnailPath,
                      !.Status          = IF @ = StatusCompleted THEN @ ELSE img.Status,
                      !.ProcessedWidth  = img.ProcessedWidth,
                      !.ProcessedHeight = img.ProcessedHeight]]
    ELSE tbl

\* An UPDATE that also sets original_width and original_height, to the
\* processed size.
RepoUpdateOriginalSize(tbl, img) ==
    IF img.ID \in DOMAIN tbl
    THEN [tbl EXCEPT ![img.ID] =
            [@ EXCEPT !.ProcessedPath   = img.ProcessedPath,
                      !.ThumbnailPath   = img.ThumbnailPath,
                      !.Status          = img.Status,
                      !.ProcessedWidth  = img.ProcessedWidth,
                      !.ProcessedHeight = img.ProcessedHeight,
                      !.OriginalWidth   = img.ProcessedWidth,
                      !.OriginalHeight  = img.ProcessedHeight]]
    ELSE tbl

\* imageRepo.Update: UPDATE images SET processed_path, thumbnail_path,
\* status, processed_width, processed_height (and updated_at) WHERE id = $1.
\* No row with that id: nothing changes and no error is reported.
RepoUpdate(tbl, img) ==
    IF img.ID \in DOMAIN tbl
    THEN [tbl EXCEPT ![img.ID] =
            [@ EXCEPT !.ProcessedPath   = img.ProcessedPath,
                      !.ThumbnailPath   = img.ThumbnailPath,
                      !.Status          = img.Status,
                      !.ProcessedWidth  = img.ProcessedWidth,
                      !.ProcessedHeight = img.ProcessedHeight]]
    ELSE tbl

\* A DELETE without its WHERE clause.
RepoDeleteAll(tbl, id) == << >>

\* A DELETE that matches no row.
RepoDeleteNone(tbl, id) == tbl

\* imageRepo.Delete: DELETE FROM images WHERE id = $1.
RepoDelete(tbl, id) == IF id \in DOMAIN tbl THEN Drop(tbl, id) ELSE tbl

\* -------------------------------------------------------- the blob store
\* storageRepo.Save: os.Create (which truncates) and io.Copy.
StoreSave(store, path, bytes) == Put(store, path, bytes)

\* storageRepo.Save returning an error: the file is not written.  (A Save
\* that fails in io.Copy leaves a file cut short; what such a file holds
\* is not modelled.)
StoreSaveFailed(store, path) == store

\* storageRepo.Delete: os.Remove; a missing file is not an error.
StoreDelete(store, path) ==
    IF path \in DOMAIN store THEN Drop(store, path) ELSE store

\* ------------------------------------------------------------ the queue
\* json.Marshal of a domain.ProcessingTask: an object keyed by the json tags.
Marshal(task) ==
    [json     |-> "object",
     image_id |-> task.ImageID, image_path |-> task.ImagePath,
     format   |-> task.Format,  width      |-> task.Width,
     height   |-> task.Height]

\* A payload that is no JSON document.
Garbage == [json |-> "garbage"]

\* json.Unmarshal into a domain.ProcessingTask.
Unmarshal(value) ==
    IF value.json = "object"
    THEN [err |-> NoError,
          task |-> [ImageID |-> value.image_id, ImagePath |-> value.image_path,
                    Format  |-> value.format,   Width     |-> value.width,
                    Height  |-> value.height]]
    ELSE [err |-> "invalid character", task |-> Nil]

\* A message written without a key.
TaskMessageUnkeyed(task) == [Key |-> EmptyString, Value |-> Marshal(task)]

\* producer.SendTask: the kafka.Message written, keyed by the image id.
TaskMessage(task) == [Key |-> task.ImageID, Value |-> Marshal(task)]

\* --------------------------------------------------------------- config
\* config.Load with no IMAGE_* variable set.
DefaultConfig ==
    [MaxFileSize     |-> DefaultMaxFileSize,
     ThumbnailWidth  |-> DefaultThumbnailWidth,
     ThumbnailHeight |-> DefaultThumbnailHeight,
     ProcessedWidth  |-> DefaultProcessedWidth,
     ProcessedHeight |-> DefaultProcessedHeight]

\* ------------------------------------------------------------ histories
HistInit ==
    [savedOk |-> {},     \* ids whose original blob Save returned nil
     deleted |-> {},     \* ids whose row a service Delete removed
     sendFailed |-> {},  \* ids whose SendTask returned an error
     sent |-> << >>,     \* the records SendTask wrote, in the order of the calls
     unacked |-> {},     \* messages fetched and uncommitted when their reader died
     unlinked |-> {}]    \* ids whose row a service Delete loaded, to remove their blobs

\* App.Start waiting for the signal: where it is, and the shutdown steps it
\* has made.
AppRunning == [pc |-> "running", steps |-> << >>]

\* No call returned in the step.
NoReturn == [op |-> "none"]

\* A topic of n empty partitions, all assigned to the group's one reader.
InitQueue(n) ==
    /\ topic = [p \in 1..n |-> << >>]
    /\ committed = [p \in 1..n |-> 0]
    /\ pos = [p \in 1..n |-> 0]
    /\ owner = [p \in 1..n |-> 1]

\* The consumer loops ws, each about to fetch.
InitLoops(ws) ==
    /\ wpc = [w \in ws |-> "fetch"]
    /\ wmsg = [w \in ws |-> Nil]
    /\ wtask = [w \in ws |-> Nil]
    /\ wimg = [w \in ws |-> Nil]
    /\ wout = [w \in ws |-> Nil]
    /\ perr = [w \in ws |-> NoError]
    /\ cancelled = [w \in ws |-> FALSE]

\* Empty stores and no call under way.
InitStores ==
    /\ rows = << >>
    /\ blobs = << >>
    /\ clock = 1
    /\ nextId = 1
    /\ upc = "idle" /\ ureq = Nil /\ uloc = Nil
    /\ dpc = "idle" /\ dloc = Nil
    /\ crashes = 0
    /\ foreign = 0
    /\ app = AppRunning
    /\ faults = 0
    /\ ret = NoReturn
    /\ hist = HistInit

InitRest == InitStores /\ InitLoops(Workers)

InitCommon == InitQueue(MaxPartitions) /\ InitRest

Init == cfg = DefaultConfig /\ InitCommon

\* A call on the registry, the blob store or the broker returns an I/O
\* error; and no call of the step does.
Fault   == faults < MaxFaults /\ faults' = faults + 1
NoFault == UNCHANGED faults

\* A call made with the consumer's context returns an error: an I/O error,
\* or context.Canceled once App.Start has cancelled the context.
Canceled(w) == cancelled[w] /\ UNCHANGED faults
CtxFault(w) == Fault \/ Canceled(w)

\* --------------------------------------------------------------- Upload
\* Upload returns err and no image.
UploadFail(req, err) ==
    /\ upc' = "idle"
    /\ ureq' = Nil
    /\ uloc' = Nil
    /\ ret' = [op |-> "Upload", req |-> req, img |-> Nil, err |-> err]

\* What of the call the handler's return is observed with.
Request(filename, size) == [Filename |-> filename, Size |-> size]

\* A size check that also turns away a file of exactly the maximum size.
TooLargeOrEqual(size, max) == size >= max

\* `header.Size > s.cfg.Image.MaxFileSize`, line 52.
TooLarge(size, max) == size > max

\* Upload, lines 50-64: the call with a file and its header; the size
\* check, GenerateID, and the format of the lower-cased extension.
UploadBegin(filename, size, bytes) ==
    /\ upc = "idle"
    /\ nextId <= Len(IdPool)
    /\ IF TooLarge(size, cfg.MaxFileSize)
       THEN /\ UploadFail(Request(filename, size), ErrFileTooLarge)
            /\ UNCHANGED nextId
       ELSE LET id  == IdPool[nextId]
                ext == ToLower(Ext(filename))
                pf  == parseFormat(ext)
            IN  /\ nextId' = nextId + 1
                /\ IF pf.err # NoError
                   THEN UploadFail(Request(filename, size), ErrUnsupported)
                   ELSE /\ upc' = "save"
                        /\ ureq' = [Filename |-> filename, Size |-> size,
                                    Bytes |-> bytes]
                        /\ uloc' = [id |-> id, ext |-> ext, format |-> pf.format,
                                    originalPath |-> JoinPath("original", id, ext),
                                    image |-> Nil]
                        /\ ret' = NoReturn
    /\ UNCHANGED <<clock, faults>>
    /\ UNCHANGED <<cfg, storeVars, deleteVars, workerVars, queueVars, envVars, hist>>

\* Image.Validate.
Validate(img) ==
    IF img.ID = EmptyString THEN ErrInvalidImageID
    ELSE IF img.OriginalPath = EmptyString THEN ErrInvalidImagePath
    ELSE NoError

\* An image record that starts with the original's size as its processed size.
NewImageSized(id, originalPath, format, width, height, now) ==
    [ID              |-> id,
     OriginalPath    |-> originalPath,
     ProcessedPath   |-> EmptyString,
     ThumbnailPath   |-> EmptyString,
     Status          |-> StatusPending,
     Format          |-> format,
     OriginalWidth   |-> width,
     OriginalHeight  |-> height,
     ProcessedWidth  |-> width,
     ProcessedHeight |-> height,
     CreatedAt       |-> now]

\* The domain.Image Upload builds, lines 83-97.
NewImage(id, originalPath, format, width, height, now) ==
    [ID              |-> id,
     OriginalPath    |-> originalPath,
     ProcessedPath   |-> EmptyString,
     ThumbnailPath   |-> EmptyString,
     Status          |-> StatusPending,
     Format          |-> format,
     OriginalWidth   |-> width,
     OriginalHeight  |-> height,
     ProcessedWidth  |-> 0,
     ProcessedHeight |-> 0,
     CreatedAt       |-> now]

\* An Upload that goes on to the image record when Save returned an error.
UploadSaveUnchecked ==
    /\ upc = "save"
    /\ \/ /\ Fault
          /\ blobs' = StoreSaveFailed(blobs, uloc.originalPath)
          /\ UNCHANGED hist
       \/ /\ NoFault
          /\ blobs' = StoreSave(blobs, uloc.originalPath, ureq.Bytes)
          /\ hist' = [hist EXCEPT !.savedOk = @ \cup {uloc.id}]
    /\ LET dec == decodeImage(ureq.Bytes, uloc.format)
           img == NewImage(uloc.id, uloc.originalPath, uloc.format,
                           dec.w, dec.h, clock)
       IN  IF ~dec.ok
           THEN UploadFail(Request(ureq.Filename, ureq.Size), ErrDecode)
                /\ UNCHANGED clock
           ELSE /\ upc' = "create"
                /\ uloc' = [uloc EXCEPT !.image = img]
                /\ clock' = clock + 1
                /\ ret' = NoReturn
                /\ UNCHANGED ureq
    /\ UNCHANGED <<rows, topic, nextId>>
    /\ UNCHANGED <<cfg, deleteVars, workerVars, queueVars, envVars>>

\* An Upload that takes the original out of the store again when the
\* decode fails.
UploadSaveCleaningUp ==
    /\ upc = "save"
    /\ \/ /\ Fault
          /\ blobs' = StoreSaveFailed(blobs, uloc.originalPath)
          /\ UploadFail(Request(ureq.Filename, ureq.Size), ErrSaveOriginal)
          /\ UNCHANGED <<clock, hist>>
       \/ /\ NoFault
          /\ hist' = [hist EXCEPT !.savedOk = @ \cup {uloc.id}]
          /\ LET dec == decodeImage(ureq.Bytes, uloc.format)
                 img == NewImage(uloc.id, uloc.originalPath, uloc.format,
                                 dec.w, dec.h, clock)
                 req == Request(ureq.Filename, ureq.Size)
             IN  IF ~dec.ok
                 THEN /\ UploadFail(req, ErrDecode)
                      /\ blobs' = StoreDelete(blobs, uloc.originalPath)
                      /\ UNCHANGED clock
                 ELSE /\ blobs' = StoreSave(blobs, uloc.originalPath, ureq.Bytes)
                      /\ upc' = "create"
                      /\ uloc' = [uloc EXCEPT !.image = img]
                      /\ clock' = clock + 1
                      /\ ret' = NoReturn
                      /\ UNCHANGED ureq
    /\ UNCHANGED <<rows, topic, nextId>>
    /\ UNCHANGED <<cfg, deleteVars, workerVars, queueVars, envVars>>

\* Upload, lines 66-101: Save of the original, then the decode for the
\* dimensions, the image record and its Validate.
UploadSave ==
    /\ upc = "save"
    /\ \/ \* Save returns an error
          /\ Fault
          /\ blobs' = StoreSaveFailed(blobs, uloc.originalPath)
          /\ UploadFail(Request(ureq.Filename, ureq.Size), ErrSaveOriginal)
          /\ UNCHANGED <<clock, hist>>
       \/ \* Save returns nil
          /\ NoFault
          /\ blobs' = StoreSave(blobs, uloc.originalPath, ureq.Bytes)
          /\ hist' = [hist EXCEPT !.savedOk = @ \cup {uloc.id}]
          /\ LET dec == decodeImage(ureq.Bytes, uloc.format)
                 img == NewImage(uloc.id, uloc.originalPath, uloc.format,
                                 dec.w, dec.h, clock)
                 req == Request(ureq.Filename, ureq.Size)
             IN  IF ~dec.ok
                 THEN UploadFail(req, ErrDecode) /\ UNCHANGED clock
                 ELSE IF Validate(img) # NoError
                 THEN UploadFail(req, Validate(img)) /\ UNCHANGED clock
                 ELSE /\ upc' = "create"
                      /\ uloc' = [uloc EXCEPT !.image = img]
                      /\ clock' = clock + 1
                      /\ ret' = NoReturn
                      /\ UNCHANGED ureq
    /\ UNCHANGED <<rows, topic, nextId>>
    /\ UNCHANGED <<cfg, deleteVars, workerVars, queueVars, envVars>>

\* An Upload that goes on to SendTask when Create returned an error.
UploadCreateUnchecked ==
    /\ upc = "create"
    /\ \/ /\ Fault
          /\ UNCHANGED rows
       \/ /\ NoFault
          /\ rows' = RepoCreate(rows, uloc.image)
    /\ upc' = "send"
    /\ ret' = NoReturn
    /\ UNCHANGED <<ureq, uloc>>
    /\ UNCHANGED <<blobs, topic, clock, nextId>>
    /\ UNCHANGED <<cfg, deleteVars, workerVars, queueVars, envVars, hist>>

\* Upload, lines 103-106: imageRepo.Create.
UploadCreate ==
    /\ upc = "create"
    /\ \/ \* Create returns an error
          /\ Fault
          /\ UploadFail(Request(ureq.Filename, ureq.Size), ErrCreateRecord)
          /\ UNCHANGED rows
       \/ \* the row is inserted
          /\ NoFault
          /\ rows' = RepoCreate(rows, uloc.image)
          /\ upc' = "send"
          /\ ret' = NoReturn
          /\ UNCHANGED <<ureq, uloc>>
    /\ UNCHANGED <<blobs, topic, clock, nextId>>
    /\ UNCHANGED <<cfg, deleteVars, workerVars, queueVars, envVars, hist>>

\* The domain.ProcessingTask Upload builds, lines 109-115.
NewTask(img) ==
    [ImageID |-> img.ID, ImagePath |-> img.OriginalPath, Format |-> img.Format,
     Width |-> img.OriginalWidth, Height |-> img.OriginalHeight]

\* writer.WriteMessages succeeding: the message is appended to partition p
\* at the partition's next offset.
Written(p, msg) ==
    /\ topic' = [topic EXCEPT ![p] = Append(@, msg)]
    /\ hist' = [hist EXCEPT !.sent = Append(@, <<p, Len(topic[p]) + 1>>)]

\* An Upload that takes the row back out of the registry when SendTask
\* returned an error.
UploadSendRollback ==
    /\ upc = "send"
    /\ \/ /\ Fault
          /\ UploadFail(Request(ureq.Filename, ureq.Size), ErrSendTask)
          /\ hist' = [hist EXCEPT !.sendFailed = @ \cup {uloc.id}]
          /\ rows' = RepoDelete(rows, uloc.id)
          /\ UNCHANGED topic
       \/ /\ NoFault
          /\ \E p \in DOMAIN topic :
                Written(p, TaskMessage(NewTask(uloc.image)))
          /\ upc' = "idle"
          /\ ureq' = Nil
          /\ uloc' = Nil
          /\ ret' = [op |-> "Upload", req |-> Request(ureq.Filename, ureq.Size),
                     img |-> uloc.image, err |-> NoError]
          /\ UNCHANGED rows
    /\ UNCHANGED <<blobs, clock, nextId>>
    /\ UNCHANGED <<cfg, deleteVars, workerVars, queueVars, envVars>>

\* Upload, lines 108-120: producer.SendTask, then the image is returned.
\* The writer's balancer picks the partition.
UploadSend ==
    /\ upc = "send"
    /\ \/ \* WriteMessages returns an error
          /\ Fault
          /\ UploadFail(Request(ureq.Filename, ureq.Size), ErrSendTask)
          /\ hist' = [hist EXCEPT !.sendFailed = @ \cup {uloc.id}]
          /\ UNCHANGED topic
       \/ \* the message is appended
          /\ NoFault
          /\ \E p \in DOMAIN topic :
                Written(p, TaskMessage(NewTask(uloc.image)))
          /\ upc' = "idle"
          /\ ureq' = Nil
          /\ uloc' = Nil
          /\ ret' = [op |-> "Upload", req |-> Request(ureq.Filename, ureq.Size),
                     img |-> uloc.image, err |-> NoError]
    /\ UNCHANGED <<rows, blobs, clock, nextId>>
    /\ UNCHANGED <<cfg, deleteVars, workerVars, queueVars, envVars>>

\* ------------------------------------------------------------- producer
ErrWriteMessage == "failed to write message"

\* producer.SendTask called with a task: the message is keyed by the
\* image id and handed to the writer, whose LeastBytes balancer picks the
\* partition by the bytes written so far, whatever the key.
SendTask(task) ==
    /\ Len(hist.sent) < MaxSends
    /\ \/ \* WriteMessages returns an error
          /\ Fault
          /\ ret' = [op |-> "SendTask", task |-> task, err |-> ErrWriteMessage]
          /\ UNCHANGED <<topic, hist>>
       \/ /\ NoFault
          /\ \E p \in DOMAIN topic : Written(p, TaskMessage(task))
          /\ ret' = [op |-> "SendTask", task |-> task, err |-> NoError]
    /\ UNCHANGED <<rows, blobs, clock, nextId, cancelled, crashes, foreign, app>>
    /\ UNCHANGED <<cfg, uploadVars, deleteVars, workerVars, queueVars>>

\* ----------------------------------------------------------------- List
ErrListFailed == "failed to list images"

\* ORDER BY created_at ascending.
OrderingsAscending(tbl) ==
    {o \in [1..Cardinality(DOMAIN tbl) -> DOMAIN tbl] :
        /\ \A i, j \in DOMAIN o : i # j => o[i] # o[j]
        /\ \A i, j \in DOMAIN o :
              i < j => tbl[o[i]].CreatedAt <= tbl[o[j]].CreatedAt}

\* ORDER BY created_at DESC: the orders of the table's ids the query may
\* produce; rows with the same created_at come in either order.
Orderings(tbl) ==
    {o \in [1..Cardinality(DOMAIN tbl) -> DOMAIN tbl] :
        /\ \A i, j \in DOMAIN o : i # j => o[i] # o[j]
        /\ \A i, j \in DOMAIN o :
              i < j => tbl[o[i]].CreatedAt >= tbl[o[j]].CreatedAt}

\* LIMIT $1 OFFSET $2.
Page(o, limit, offset) ==
    SubSeq(o, offset + 1, IF offset + limit < Len(o) THEN offset + limit ELSE Len(o))

\* imageService.List / imageRepo.List, lines 94-126: the rows of the page,
\* scanned into images in the order of the query.
List(limit, offset) ==
    /\ \/ \E o \in Orderings(rows) :
             LET page == Page(o, limit, offset)
             IN  /\ ret' = [op |-> "List", limit |-> limit, offset |-> offset,
                            images |-> [i \in 1..Len(page) |-> rows[page[i]]],
                            err |-> NoError]
                 /\ NoFault
       \/ \* the query fails
          /\ ret' = [op |-> "List", limit |-> limit, offset |-> offset,
                     images |-> << >>, err |-> ErrListFailed]
          /\ Fault
    /\ UNCHANGED <<cfg, storeVars, uploadVars, deleteVars, workerVars, queueVars,
                   envVars, hist>>

\* --------------------------------------------------------------- Delete
ErrGetFailed    == "failed to get image"
ErrDeleteFailed == "failed to delete image"

\* Delete returns err.
DeleteReturns(id, err) ==
    /\ dpc' = "idle"
    /\ dloc' = Nil
    /\ ret' = [op |-> "Delete", id |-> id, err |-> err]

\* imageService.Delete, lines 127-131: the row is loaded; an error returns.
DeleteBegin(id) ==
    /\ dpc = "idle"
    /\ \/ /\ GetByID(rows, id).err = NoError
          /\ dpc' = "rm_original"
          /\ dloc' = [id |-> id, img |-> GetByID(rows, id).img]
          /\ hist' = [hist EXCEPT !.unlinked = @ \cup {id}]
          /\ ret' = NoReturn
          /\ NoFault
       \/ /\ GetByID(rows, id).err # NoError
          /\ DeleteReturns(id, GetByID(rows, id).err)
          /\ UNCHANGED hist
          /\ NoFault
       \/ \* the query fails
          /\ DeleteReturns(id, ErrGetFailed)
          /\ UNCHANGED hist
          /\ Fault
    /\ UNCHANGED <<cfg, storeVars, uploadVars, workerVars, queueVars, envVars>>

\* `if path != "" { _ = s.storageRepo.Delete(ctx, path) }`: the blob is
\* removed, or os.Remove fails and the error is dropped.
DeleteBlob(path) ==
    IF path = EmptyString THEN UNCHANGED blobs /\ NoFault
    ELSE \/ blobs' = StoreDelete(blobs, path) /\ NoFault
         \/ path \in DOMAIN blobs /\ UNCHANGED blobs /\ Fault

\* A Delete that returns the error of the original blob's removal and
\* leaves the rest as it is.
DeleteOriginalChecked ==
    /\ dpc = "rm_original"
    /\ \/ /\ dloc.img.OriginalPath \in DOMAIN blobs
          /\ UNCHANGED blobs
          /\ Fault
          /\ DeleteReturns(dloc.id, ErrDeleteFailed)
       \/ /\ blobs' = StoreDelete(blobs, dloc.img.OriginalPath)
          /\ NoFault
          /\ dpc' = "rm_processed"
          /\ ret' = NoReturn
          /\ UNCHANGED dloc
    /\ UNCHANGED <<rows, topic>>
    /\ UNCHANGED <<cfg, uploadVars, workerVars, queueVars, envVars, hist>>

\* imageService.Delete, lines 134-136.
DeleteOriginal ==
    /\ dpc = "rm_original"
    /\ DeleteBlob(dloc.img.OriginalPath)
    /\ dpc' = "rm_processed"
    /\ ret' = NoReturn
    /\ UNCHANGED <<dloc, rows, topic>>
    /\ UNCHANGED <<cfg, uploadVars, workerVars, queueVars, envVars, hist>>

\* imageService.Delete, lines 137-139.
DeleteProcessed ==
    /\ dpc = "rm_processed"
    /\ DeleteBlob(dloc.img.ProcessedPath)
    /\ dpc' = "rm_thumbnail"
    /\ ret' = NoReturn
    /\ UNCHANGED <<dloc, rows, topic>>
    /\ UNCHANGED <<cfg, uploadVars, workerVars, queueVars, envVars, hist>>

\* imageService.Delete, lines 140-142.
DeleteThumbnail ==
    /\ dpc = "rm_thumbnail"
    /\ DeleteBlob(dloc.img.ThumbnailPath)
    /\ dpc' = "rm_row"
    /\ ret' = NoReturn
    /\ UNCHANGED <<dloc, rows, topic>>
    /\ UNCHANGED <<cfg, uploadVars, workerVars, queueVars, envVars, hist>>

\* imageService.Delete, line 145: imageRepo.Delete and its error returned.
DeleteRow ==
    /\ dpc = "rm_row"
    /\ \/ /\ rows' = RepoDelete(rows, dloc.id)
          /\ hist' = [hist EXCEPT !.deleted = @ \cup {dloc.id}]
          /\ DeleteReturns(dloc.id, NoError)
          /\ NoFault
       \/ \* the DELETE fails
          /\ DeleteReturns(dloc.id, ErrDeleteFailed)
          /\ UNCHANGED <<rows, hist>>
          /\ Fault
    /\ UNCHANGED <<blobs, topic>>
    /\ UNCHANGED <<cfg, uploadVars, workerVars, queueVars, envVars>>

\* The blobs at the paths (`if path != ""`) that are in the store.
Present(store, paths) ==
    {p \in DOMAIN store : \E i \in 1..Len(paths) : paths[i] = p}

\* The blob store after `_ = s.storageRepo.Delete(ctx, path)` for each of
\* the paths, the removals of `kept` failing.
DeleteBlobs(store, paths, kept) ==
    [p \in (DOMAIN store \ (Present(store, paths) \ kept)) |-> store[p]]

\* imageService.Delete as one step, lines 127-146: the row is loaded, the
\* three blobs are deleted with their errors dropped, the row is deleted.
Delete(id) ==
    /\ dpc = "idle"
    /\ LET got == GetByID(rows, id)
           paths == <<got.img.OriginalPath, got.img.ProcessedPath,
                       got.img.ThumbnailPath>>
       IN  \/ /\ got.err # NoError
              /\ DeleteReturns(id, got.err)
              /\ UNCHANGED <<rows, blobs, hist, faults>>
           \/ \* the query fails
              /\ DeleteReturns(id, ErrGetFailed)
              /\ UNCHANGED <<rows, blobs, hist>>
              /\ Fault
           \/ /\ got.err = NoError
              /\ \E kept \in SUBSET Present(blobs, paths), rowFails \in BOOLEAN :
                    LET n == Cardinality(kept) + (IF rowFails THEN 1 ELSE 0)
                    IN  /\ faults + n <= MaxFaults
                        /\ faults' = faults + n
                        /\ blobs' = DeleteBlobs(blobs, paths, kept)
                        /\ IF rowFails
                           THEN /\ DeleteReturns(id, ErrDeleteFailed)
                                /\ hist' = [hist EXCEPT !.unlinked = @ \cup {id}]
                                /\ UNCHANGED rows
                           ELSE /\ rows' = RepoDelete(rows, id)
                                /\ hist' = [hist EXCEPT !.deleted = @ \cup {id},
                                                        !.unlinked = @ \cup {id}]
                                /\ DeleteReturns(id, NoError)
    /\ UNCHANGED topic
    /\ UNCHANGED <<cfg, uploadVars, workerVars, queueVars, envVars>>

\* ------------------------------------------------------- consumer.Start
ErrCanceled == "context canceled"
ErrFetch    == "failed to fetch message"
ErrCommit   == "failed to commit message"

\* ProcessImage's errors.
ErrGetImage      == "failed to get image: image not found"
ErrGetImageQuery == "failed to get image: failed to get image"
ErrUpdateStatus  == "failed to update status"
ErrReadNotFound  == "failed to read original image: file not found"
ErrReadOpen      == "failed to read original image: failed to open file"
ErrSaveProcessed == "failed to save processed image"
ErrSaveThumbnail == "failed to save thumbnail"
ErrUpdateRecord  == "failed to update image record"
ErrUpdateFailed  == "failed to update image"

\* The identity of a fetched message: its partition and offset.
MsgId(m) == <<m.Partition, m.Offset>>

\* The iteration's locals are gone.
ClearLocals(w) ==
    /\ wmsg' = [wmsg EXCEPT ![w] = Nil]
    /\ wtask' = [wtask EXCEPT ![w] = Nil]
    /\ wimg' = [wimg EXCEPT ![w] = Nil]
    /\ wout' = [wout EXCEPT ![w] = Nil]
    /\ perr' = [perr EXCEPT ![w] = NoError]

\* A loop that is started again when Start has returned err.
StartRestarted(w, err) ==
    /\ wpc' = [wpc EXCEPT ![w] = "fetch"]
    /\ ret' = [op |-> "Start", w |-> w, err |-> err]
    /\ ClearLocals(w)

\* Start returns err.
StartReturns(w, err) ==
    /\ wpc' = [wpc EXCEPT ![w] = "stopped"]
    /\ ret' = [op |-> "Start", w |-> w, err |-> err]
    /\ ClearLocals(w)

\* Start, lines 86-100: the select on ctx.Done(), FetchMessage and
\* json.Unmarshal of the message's value.
Fetch(w) ==
    /\ wpc[w] = "fetch"
    /\ IF cancelled[w]
       THEN /\ StartReturns(w, ErrCanceled)
            /\ UNCHANGED <<pos, faults>>
       ELSE \/ \* FetchMessage returns an error
               /\ StartReturns(w, ErrFetch)
               /\ UNCHANGED pos
               /\ Fault
            \/ \* FetchMessage returns the next message of a partition
               \E p \in DOMAIN topic :
                  /\ owner[p] = w
                  /\ pos[p] < Len(topic[p])
                  /\ LET rec == topic[p][pos[p] + 1]
                         msg == [Partition |-> p, Offset |-> pos[p],
                                 Key |-> rec.Key, Value |-> rec.Value]
                         um  == Unmarshal(rec.Value)
                     IN  /\ pos' = [pos EXCEPT ![p] = @ + 1]
                         /\ wmsg' = [wmsg EXCEPT ![w] = msg]
                         /\ IF um.err # NoError
                            THEN /\ wpc' = [wpc EXCEPT ![w] = "commit_undecoded"]
                                 /\ UNCHANGED wtask
                            ELSE /\ wpc' = [wpc EXCEPT ![w] = "get"]
                                 /\ wtask' = [wtask EXCEPT ![w] = um.task]
                         /\ ret' = NoReturn
                         /\ UNCHANGED <<wimg, wout, perr, faults>>
    /\ UNCHANGED <<committed, owner>>
    /\ UNCHANGED <<cfg, storeVars, uploadVars, deleteVars, envVars, hist>>

\* A commit that the broker acknowledges and loses.
CommitLost(offsets, msg) == offsets

\* A commit that also covers the message after the one it is given.
CommitThrough(offsets, msg) == [offsets EXCEPT ![msg.Partition] = msg.Offset + 2]

\* reader.CommitMessages(msg) succeeding: the group's offset of the
\* message's partition becomes the offset after the message.
Commit(offsets, msg) == [offsets EXCEPT ![msg.Partition] = msg.Offset + 1]

\* CommitMessages returned err for the message, after ProcessImage
\* returned `after` for it.
CommitReturns(w, err) ==
    [op |-> "CommitMessages", w |-> w, msg |-> MsgId(wmsg[w]),
     after |-> perr[w], err |-> err]

\* A loop that returns from Start when a message does not deserialize.
CommitUndecodedStops(w) ==
    /\ wpc[w] = "commit_undecoded"
    /\ StartReturns(w, "invalid character")
    /\ NoFault
    /\ UNCHANGED <<committed, pos, owner>>
    /\ UNCHANGED <<cfg, storeVars, uploadVars, deleteVars, envVars, hist>>

\* Start, lines 97-100: `_ = c.reader.CommitMessages(ctx, msg); continue`.
CommitUndecoded(w) ==
    /\ wpc[w] = "commit_undecoded"
    /\ \/ /\ committed' = Commit(committed, wmsg[w])
          /\ ret' = CommitReturns(w, NoError)
          /\ NoFault
       \/ \* CommitMessages returns an error
          /\ UNCHANGED committed
          /\ ret' = CommitReturns(w, ErrCommit)
          /\ CtxFault(w)
    /\ wpc' = [wpc EXCEPT ![w] = "fetch"]
    /\ ClearLocals(w)
    /\ UNCHANGED <<pos, owner>>
    /\ UNCHANGED <<cfg, storeVars, uploadVars, deleteVars, envVars, hist>>

\* ProcessImage returns err to Start (line 102).
ProcessReturns(w, err) ==
    /\ wpc' = [wpc EXCEPT ![w] = "commit"]
    /\ perr' = [perr EXCEPT ![w] = err]
    /\ ret' = [op |-> "ProcessImage", w |-> w, task |-> wtask[w], err |-> err]

\* ProcessImage, lines 224-228: the row is loaded.
ProcessGet(w) ==
    /\ wpc[w] = "get"
    /\ LET got == GetByID(rows, wtask[w].ImageID)
       IN  \/ /\ got.err = NoError
              /\ wimg' = [wimg EXCEPT ![w] = got.img]
              /\ wpc' = [wpc EXCEPT ![w] = "mark"]
              /\ ret' = NoReturn
              /\ UNCHANGED <<perr, faults>>
           \/ /\ got.err # NoError
              /\ ProcessReturns(w, ErrGetImage)
              /\ UNCHANGED <<wimg, faults>>
           \/ \* the query fails
              /\ ProcessReturns(w, ErrGetImageQuery)
              /\ UNCHANGED wimg
              /\ CtxFault(w)
    /\ UNCHANGED <<wmsg, wtask, wout>>
    /\ UNCHANGED <<cfg, storeVars, uploadVars, deleteVars, queueVars, envVars, hist>>

\* ProcessImage, lines 230-235: status processing is persisted.
ProcessMark(w) ==
    /\ wpc[w] = "mark"
    /\ LET img == [wimg[w] EXCEPT !.Status = StatusProcessing]
       IN  /\ wimg' = [wimg EXCEPT ![w] = img]
           /\ \/ /\ rows' = RepoUpdate(rows, img)
                 /\ wpc' = [wpc EXCEPT ![w] = "read"]
                 /\ ret' = NoReturn
                 /\ UNCHANGED <<perr, faults>>
              \/ \* Update returns an error
                 /\ ProcessReturns(w, ErrUpdateStatus)
                 /\ UNCHANGED rows
                 /\ CtxFault(w)
    /\ UNCHANGED <<wmsg, wtask, wout, blobs, topic>>
    /\ UNCHANGED <<cfg, uploadVars, deleteVars, queueVars, envVars, hist>>

\* An error path that leaves img.Status as it is.
ProcessFailsUnmarked(w, err) ==
    /\ UNCHANGED wimg
    /\ wout' = [wout EXCEPT ![w] = [err |-> err]]
    /\ wpc' = [wpc EXCEPT ![w] = "fail"]

\* ProcessImage's error paths set img.Status = failed before the Update
\* whose error they drop.
ProcessFails(w, err) ==
    /\ wimg' = [wimg EXCEPT ![w] = [@ EXCEPT !.Status = StatusFailed]]
    /\ wout' = [wout EXCEPT ![w] = [err |-> err]]
    /\ wpc' = [wpc EXCEPT ![w] = "fail"]

\* ProcessImage, lines 237-270: the original is read and decoded by the
\* task's format, and resized to the processed and the thumbnail size.
ProcessRead(w) ==
    /\ wpc[w] = "read"
    /\ LET path == wtask[w].ImagePath
       IN  \/ \* os.Open: no such file
              /\ path \notin DOMAIN blobs
              /\ ProcessFails(w, ErrReadNotFound)
              /\ NoFault
           \/ \* os.Open fails otherwise
              /\ path \in DOMAIN blobs
              /\ ProcessFails(w, ErrReadOpen)
              /\ Fault
           \/ \* reading the opened file fails in the decoder
              /\ path \in DOMAIN blobs
              /\ ProcessFails(w, ErrDecode)
              /\ Fault
           \/ /\ path \in DOMAIN blobs
              /\ NoFault
              /\ LET dec == decodeImage(blobs[path], wtask[w].Format)
                 IN  IF ~dec.ok
                     THEN ProcessFails(w, ErrDecode)
                     ELSE /\ wout' = [wout EXCEPT ![w] =
                                 [err       |-> NoError,
                                  processed |-> Resize(cfg.ProcessedWidth,
                                                    cfg.ProcessedHeight, dec.w, dec.h),
                                  thumbnail |-> Resize(cfg.ThumbnailWidth,
                                                    cfg.ThumbnailHeight, dec.w, dec.h)]]
                          /\ wpc' = [wpc EXCEPT ![w] = "save_processed"]
                          /\ UNCHANGED wimg
    /\ ret' = NoReturn
    /\ UNCHANGED <<wmsg, wtask, perr>>
    /\ UNCHANGED <<cfg, storeVars, uploadVars, deleteVars, queueVars, envVars, hist>>

\* A saveImage that returns nil and has written nothing.
saveImageUnwritten(store, path, size, format) ==
    [ok |-> store, failed |-> store]

\* saveImage: the picture is encoded in the format into a temporary file,
\* which is then saved at path.  It fails before anything is written (the
\* temporary file, the encoder) or in storageRepo.Save.
saveImage(store, path, size, format) ==
    [ok     |-> StoreSave(store, path, Pic(format, size.w, size.h)),
     failed |-> StoreSaveFailed(store, path)]

\* ProcessImage, lines 272-279: the processed picture is saved.
ProcessSaveProcessed(w) ==
    /\ wpc[w] = "save_processed"
    /\ LET path == JoinPath("processed", wtask[w].ImageID, getExtension(wtask[w].Format))
           sv   == saveImage(blobs, path, wout[w].processed, wtask[w].Format)
       IN  \/ /\ blobs' = sv.ok
              /\ wpc' = [wpc EXCEPT ![w] = "save_thumbnail"]
              /\ UNCHANGED <<wimg, wout, faults>>
           \/ \* saveImage returns an error
              /\ blobs' = sv.failed
              /\ ProcessFails(w, ErrSaveProcessed)
              /\ Fault
    /\ ret' = NoReturn
    /\ UNCHANGED <<wmsg, wtask, perr, rows, topic>>
    /\ UNCHANGED <<cfg, uploadVars, deleteVars, queueVars, envVars, hist>>

\* A run that goes on to the last Update without saving the thumbnail.
ProcessSaveThumbnailSkipped(w) ==
    /\ wpc[w] = "save_thumbnail"
    /\ wpc' = [wpc EXCEPT ![w] = "finalize"]
    /\ ret' = NoReturn
    /\ UNCHANGED <<wmsg, wtask, wimg, wout, perr, rows, blobs, topic, faults>>
    /\ UNCHANGED <<cfg, uploadVars, deleteVars, queueVars, envVars, hist>>

\* ProcessImage, lines 281-288: the thumbnail is saved.
ProcessSaveThumbnail(w) ==
    /\ wpc[w] = "save_thumbnail"
    /\ LET path == JoinPath("thumbnail", wtask[w].ImageID, getExtension(wtask[w].Format))
           sv   == saveImage(blobs, path, wout[w].thumbnail, wtask[w].Format)
       IN  \/ /\ blobs' = sv.ok
              /\ wpc' = [wpc EXCEPT ![w] = "finalize"]
              /\ UNCHANGED <<wimg, wout, faults>>
           \/ \* saveImage returns an error
              /\ blobs' = sv.failed
              /\ ProcessFails(w, ErrSaveThumbnail)
              /\ Fault
    /\ ret' = NoReturn
    /\ UNCHANGED <<wmsg, wtask, perr, rows, topic>>
    /\ UNCHANGED <<cfg, uploadVars, deleteVars, queueVars, envVars, hist>>

\* A finished record that keeps the status the run holds.
CompletedStillProcessing(img, task, processed) ==
    [img EXCEPT
       !.ProcessedPath   = JoinPath("processed", task.ImageID, getExtension(task.Format)),
       !.ThumbnailPath   = JoinPath("thumbnail", task.ImageID, getExtension(task.Format)),
       !.ProcessedWidth  = processed.w,
       !.ProcessedHeight = processed.h]

\* ProcessImage, lines 296-303: the record of a finished run.
Completed(img, task, processed) ==
    [img EXCEPT
       !.ProcessedPath   = JoinPath("processed", task.ImageID, getExtension(task.Format)),
       !.ThumbnailPath   = JoinPath("thumbnail", task.ImageID, getExtension(task.Format)),
       !.Status          = StatusCompleted,
       !.ProcessedWidth  = processed.w,
       !.ProcessedHeight = processed.h]

\* A run that returns nil without persisting the finished record.
ProcessFinalizeUnpersisted(w) ==
    /\ wpc[w] = "finalize"
    /\ ProcessReturns(w, NoError)
    /\ UNCHANGED <<wmsg, wtask, wimg, wout, rows, blobs, topic, faults>>
    /\ UNCHANGED <<cfg, uploadVars, deleteVars, queueVars, envVars, hist>>

\* ProcessImage, lines 296-309: the finished record is persisted.
ProcessFinalize(w) ==
    /\ wpc[w] = "finalize"
    /\ LET img == Completed(wimg[w], wtask[w], wout[w].processed)
       IN  /\ wimg' = [wimg EXCEPT ![w] = img]
           /\ \/ /\ rows' = RepoUpdate(rows, img)
                 /\ ProcessReturns(w, NoError)
                 /\ NoFault
              \/ \* Update returns an error
                 /\ ProcessReturns(w, ErrUpdateRecord)
                 /\ UNCHANGED rows
                 /\ CtxFault(w)
    /\ UNCHANGED <<wmsg, wtask, wout, blobs, topic>>
    /\ UNCHANGED <<cfg, uploadVars, deleteVars, queueVars, envVars, hist>>

\* ProcessImage's error paths (lines 240-243, 250-253, 275-278, 284-287):
\* `_ = s.imageRepo.Update(ctx, img)` with status failed, then the error.
\* wout.dropped is the error that `_ =` drops.
ProcessFail(w) ==
    /\ wpc[w] = "fail"
    /\ \/ /\ rows' = RepoUpdate(rows, wimg[w])
          /\ wout' = [wout EXCEPT ![w] = [err |-> @.err, dropped |-> NoError]]
          /\ NoFault
       \/ \* Update returns an error
          /\ UNCHANGED rows
          /\ wout' = [wout EXCEPT ![w] = [err |-> @.err, dropped |-> ErrUpdateFailed]]
          /\ CtxFault(w)
    /\ ProcessReturns(w, wout[w].err)
    /\ UNCHANGED <<wmsg, wtask, wimg, blobs, topic>>
    /\ UNCHANGED <<cfg, uploadVars, deleteVars, queueVars, envVars, hist>>

\* A loop that returns ProcessImage's error from Start and commits only
\* the messages whose processing succeeded.
CommitProcessedOnSuccess(w) ==
    /\ wpc[w] = "commit"
    /\ \/ /\ perr[w] = NoError
          /\ committed' = Commit(committed, wmsg[w])
          /\ ret' = CommitReturns(w, NoError)
          /\ wpc' = [wpc EXCEPT ![w] = "fetch"]
          /\ ClearLocals(w)
          /\ NoFault
       \/ /\ perr[w] # NoError
          /\ StartReturns(w, perr[w])
          /\ UNCHANGED committed
          /\ NoFault
       \/ /\ StartReturns(w, ErrCommit)
          /\ UNCHANGED committed
          /\ CtxFault(w)
    /\ UNCHANGED <<pos, owner>>
    /\ UNCHANGED <<cfg, storeVars, uploadVars, deleteVars, envVars, hist>>

\* Start, lines 102-109: whatever ProcessImage returned, the message is
\* committed; only a commit error ends the loop.
CommitProcessed(w) ==
    /\ wpc[w] = "commit"
    /\ \/ /\ committed' = Commit(committed, wmsg[w])
          /\ ret' = CommitReturns(w, NoError)
          /\ wpc' = [wpc EXCEPT ![w] = "fetch"]
          /\ ClearLocals(w)
          /\ NoFault
       \/ \* CommitMessages returns an error
          /\ StartReturns(w, ErrCommit)
          /\ UNCHANGED committed
          /\ CtxFault(w)
    /\ UNCHANGED <<pos, owner>>
    /\ UNCHANGED <<cfg, storeVars, uploadVars, deleteVars, envVars, hist>>

\* ----------------------------------------------------------- environment
\* App.Start's cancel() on the shutdown signal.
Cancel(w) ==
    /\ ~cancelled[w]
    /\ cancelled' = [cancelled EXCEPT ![w] = TRUE]
    /\ ret' = NoReturn
    /\ UNCHANGED <<crashes, foreign, app, faults>>
    /\ UNCHANGED <<cfg, storeVars, uploadVars, deleteVars, workerVars, queueVars, hist>>

\* App.Start's shutdown makes a step and goes on to the next position.
AppStep(step, next) ==
    app' = [pc |-> next, steps |-> Append(app.steps, step)]

\* App.Start returns err.
AppReturns(err) == ret' = [op |-> "App.Start", err |-> err]

ErrShutdownHTTP  == "failed to shutdown http server"
ErrCloseConsumer == "failed to close kafka consumer"

\* App.Start, lines 472-482: the signal arrives and cancel() is called.
ShutdownCancel ==
    /\ app.pc = "running"
    /\ AppStep("cancel", "http")
    /\ cancelled' = [w \in Workers |-> TRUE]
    /\ ret' = NoReturn
    /\ UNCHANGED <<crashes, foreign, faults>>
    /\ UNCHANGED <<cfg, storeVars, uploadVars, deleteVars, workerVars, queueVars, hist>>

\* App.Start, lines 484-486: httpServer.Shutdown under the 30-second
\* context; its error is returned.
ShutdownHTTP ==
    /\ app.pc = "http"
    /\ \/ /\ AppStep("http", "consumer")
          /\ ret' = NoReturn
          /\ NoFault
       \/ \* Shutdown returns an error (the 30 seconds are over)
          /\ AppStep("http", "returned")
          /\ AppReturns(ErrShutdownHTTP)
          /\ Fault
    /\ UNCHANGED <<cancelled, crashes, foreign>>
    /\ UNCHANGED <<cfg, storeVars, uploadVars, deleteVars, workerVars, queueVars, hist>>

\* App.Start, lines 488-490: kafkaConsumer.Close; its error is returned.
ShutdownConsumer ==
    /\ app.pc = "consumer"
    /\ \/ /\ AppStep("consumer", "db")
          /\ ret' = NoReturn
          /\ NoFault
       \/ \* Close returns an error
          /\ AppStep("consumer", "returned")
          /\ AppReturns(ErrCloseConsumer)
          /\ Fault
    /\ UNCHANGED <<cancelled, crashes, foreign>>
    /\ UNCHANGED <<cfg, storeVars, uploadVars, deleteVars, workerVars, queueVars, hist>>

\* App.Start, lines 492-495: db.Close, and nil is returned.
ShutdownDB ==
    /\ app.pc = "db"
    /\ AppStep("db", "returned")
    /\ AppReturns(NoError)
    /\ UNCHANGED <<cancelled, crashes, foreign, faults>>
    /\ UNCHANGED <<cfg, storeVars, uploadVars, deleteVars, workerVars, queueVars, hist>>

\* A consumer process dies wherever it is, or has ended, and is started
\* again: a new reader of the group resumes each of its partitions at the
\* committed offset.
Crash(w) ==
    /\ crashes < MaxCrashes
    /\ \E p \in DOMAIN topic : owner[p] = w
    /\ crashes' = crashes + 1
    /\ cancelled' = [cancelled EXCEPT ![w] = FALSE]
    /\ pos' = [p \in DOMAIN topic |-> IF owner[p] = w THEN committed[p] ELSE pos[p]]
    /\ wpc' = [wpc EXCEPT ![w] = "fetch"]
    /\ ClearLocals(w)
    /\ ret' = NoReturn
    /\ hist' = [hist EXCEPT !.unacked = @ \cup
                  UNION {{<<p, o>> : o \in committed[p]..(pos[p] - 1)} :
                            p \in {q \in DOMAIN topic : owner[q] = w}}]
    /\ UNCHANGED <<committed, owner, foreign, app, faults>>
    /\ UNCHANGED <<cfg, storeVars, uploadVars, deleteVars>>

\* Another producer appends a record that is no task to the topic, under
\* no key or under an image id.
ForeignSend(p) ==
    /\ foreign < MaxForeign
    /\ foreign' = foreign + 1
    /\ \E key \in {EmptyString} \cup AllIDs :
          topic' = [topic EXCEPT ![p] = Append(@, [Key |-> key, Value |-> Garbage])]
    /\ ret' = NoReturn
    /\ UNCHANGED <<rows, blobs, cancelled, crashes, app, faults>>
    /\ UNCHANGED <<cfg, uploadVars, deleteVars, workerVars, queueVars, hist>>

\* ------------------------------------------------------- specifications
\* The files the pipeline is driven with.
NameJPEG == <<"a", ".", "J", "P", "E", "G">>
PicJPEG  == Pic(FormatJPEG, 1920, 1080)
PicPNG   == Pic(FormatPNG, 3, 5)

\* The pipeline: uploads, deletes, one consumer loop, and the consumer
\* process dying.
Next ==
    \/ \E b \in {PicJPEG, PicPNG} :
          nextId <= MaxImages /\ UploadBegin(NameJPEG, 10, b)
    \/ UploadSave
    \/ UploadCreate
    \/ UploadSend
    \/ \E id \in AllIDs : Delete(id)
    \/ \E w \in Workers : Fetch(w)
    \/ \E w \in Workers : ProcessGet(w)
    \/ \E w \in Workers : ProcessMark(w)
    \/ \E w \in Workers : ProcessRead(w)
    \/ \E w \in Workers : ProcessSaveProcessed(w)
    \/ \E w \in Workers : ProcessSaveThumbnail(w)
    \/ \E w \in Workers : ProcessFinalize(w)
    \/ \E w \in Workers : ProcessFail(w)
    \/ \E w \in Workers : CommitProcessed(w)
    \/ \E w \in Workers : Crash(w)

Spec == Init /\ [][Next]_vars

\* The pipeline with Delete taken one call on a store at a time, so that
\* the other processes run between its calls.
NextInterleaved ==
    \/ \E b \in {PicJPEG, PicPNG} :
          nextId <= MaxImages /\ UploadBegin(NameJPEG, 10, b)
    \/ UploadSave
    \/ UploadCreate
    \/ UploadSend
    \/ \E id \in AllIDs : DeleteBegin(id)
    \/ DeleteOriginal
    \/ DeleteProcessed
    \/ DeleteThumbnail
    \/ DeleteRow
    \/ \E w \in Workers : Fetch(w)
    \/ \E w \in Workers : ProcessGet(w)
    \/ \E w \in Workers : ProcessMark(w)
    \/ \E w \in Workers : ProcessRead(w)
    \/ \E w \in Workers : ProcessSaveProcessed(w)
    \/ \E w \in Workers : ProcessSaveThumbnail(w)
    \/ \E w \in Workers : ProcessFinalize(w)
    \/ \E w \in Workers : ProcessFail(w)
    \/ \E w \in Workers : CommitProcessed(w)
    \/ \E w \in Workers : Crash(w)

SpecInterleaved == Init /\ [][NextInterleaved]_vars

\* The pipeline with records on the topic that are no tasks.
NextForeign ==
    \/ Next
    \/ \E p \in Partitions : ForeignSend(p)
    \/ \E w \in Workers : CommitUndecoded(w)

SpecForeign == Init /\ [][NextForeign]_vars

\* The pipeline with the shutdown signal.
NextShutdown ==
    \/ Next
    \/ \E w \in Workers : Cancel(w)

SpecShutdown == Init /\ [][NextShutdown]_vars

\* The pipeline with App.Start's shutdown sequence.
NextApp ==
    \/ Next
    \/ ShutdownCancel
    \/ ShutdownHTTP
    \/ ShutdownConsumer
    \/ ShutdownDB

SpecApp == Init /\ [][NextApp]_vars

\* One iteration step of the consumer loop w: a fetch, a call made by
\* ProcessImage, or the commit.
LoopStep(w) ==
    \/ Fetch(w)
    \/ ProcessGet(w)
    \/ ProcessMark(w)
    \/ ProcessRead(w)
    \/ ProcessSaveProcessed(w)
    \/ ProcessSaveThumbnail(w)
    \/ ProcessFinalize(w)
    \/ ProcessFail(w)
    \/ CommitProcessed(w)

\* The goroutine of the consumer loop keeps running: a call of the loop
\* that can return without an error does return.
LoopFairness == \A w \in Workers : WF_vars(LoopStep(w) /\ UNCHANGED faults)

\* An Upload under way goes on: a call of it that can return without an
\* error does return.
UploadFairness ==
    WF_vars((UploadSave \/ UploadCreate \/ UploadSend) /\ UNCHANGED faults)

\* The pipeline with the consumer loop scheduled fairly and no call
\* hanging.
SpecLive == Init /\ [][Next]_vars /\ LoopFairness /\ UploadFairness

\* Two consumer processes of the group, each the reader of one of the
\* topic's two partitions.
Readers == 1..MaxTopicPartitions

InitRace ==
    /\ cfg = DefaultConfig
    /\ topic = [p \in Readers |-> << >>]
    /\ committed = [p \in Readers |-> 0]
    /\ pos = [p \in Readers |-> 0]
    /\ owner = [p \in Readers |-> p]
    /\ InitStores
    /\ InitLoops(Readers)

\* One image is uploaded, its task is sent a second time (a replay), and
\* the readers hand what they fetch to ProcessImage.
NextRace ==
    \/ nextId = 1 /\ UploadBegin(NameJPEG, 10, PicJPEG)
    \/ UploadSave
    \/ UploadCreate
    \/ UploadSend
    \/ \E id \in DOMAIN rows :
          /\ Len(hist.sent) < Cardinality(Readers)
          /\ SendTask(NewTask(rows[id]))
    \/ \E w \in Readers : Fetch(w)
    \/ \E w \in Readers : ProcessGet(w)
    \/ \E w \in Readers : ProcessMark(w)
    \/ \E w \in Readers : ProcessRead(w)
    \/ \E w \in Readers : ProcessSaveProcessed(w)
    \/ \E w \in Readers : ProcessSaveThumbnail(w)
    \/ \E w \in Readers : ProcessFinalize(w)
    \/ \E w \in Readers : ProcessFail(w)
    \/ \E w \in Readers : CommitProcessed(w)

SpecRace == InitRace /\ [][NextRace]_vars

\* Upload alone, driven with file names of every kind of extension and
\* with declared sizes on both sides of the maximum, under the default
\* IMAGE_MAX_FILE_SIZE and under a small one.
FileNames ==
    { <<"a", ".", "j", "p", "g">>,
      NameJPEG,
      <<"b", ".", "P", "n", "g">>,
      <<"c", ".", "g", "i", "f">>,
      <<"d", ".", "b", "m", "p">>,
      <<"j", "p", "g">> }

SmallMaxFileSize == [DefaultConfig EXCEPT !.MaxFileSize = 10]

FileSizes == {9, 10, 11, DefaultMaxFileSize, DefaultMaxFileSize + 1}

InitUpload == cfg \in {DefaultConfig, SmallMaxFileSize} /\ InitCommon

NextUpload ==
    \/ \E f \in FileNames, n \in FileSizes, b \in {PicJPEG, PicPNG} :
          nextId <= MaxImages /\ UploadBegin(f, n, b)
    \/ UploadSave
    \/ UploadCreate
    \/ UploadSend

SpecUpload == InitUpload /\ [][NextUpload]_vars

\* The pipeline under several IMAGE_PROCESSED_WIDTH / IMAGE_PROCESSED_HEIGHT
\* settings, a target of 0 among them.
Targets == {<<800, 800>>, <<1, 3>>, <<0, 800>>, <<800, 0>>, <<0, 0>>}

InitResize ==
    /\ cfg \in {[DefaultConfig EXCEPT !.ProcessedWidth = t[1],
                                      !.ProcessedHeight = t[2]] : t \in Targets}
    /\ InitCommon

PicSmall == Pic(FormatJPEG, 3, 5)

NextResize ==
    \/ \E b \in {PicJPEG, PicSmall} :
          nextId <= MaxImages /\ UploadBegin(NameJPEG, 10, b)
    \/ UploadSave
    \/ UploadCreate
    \/ UploadSend
    \/ \E id \in AllIDs : Delete(id)
    \/ \E w \in Workers : Fetch(w)
    \/ \E w \in Workers : ProcessGet(w)
    \/ \E w \in Workers : ProcessMark(w)
    \/ \E w \in Workers : ProcessRead(w)
    \/ \E w \in Workers : ProcessSaveProcessed(w)
    \/ \E w \in Workers : ProcessSaveThumbnail(w)
    \/ \E w \in Workers : ProcessFinalize(w)
    \/ \E w \in Workers : ProcessFail(w)
    \/ \E w \in Workers : CommitProcessed(w)
    \/ \E w \in Workers : Crash(w)

SpecResize == InitResize /\ [][NextResize]_vars

\* Uploads, deletes and listings of the registry, with every limit and
\* offset up to the number of images.
NextList ==
    \/ UploadBegin(NameJPEG, 10, PicJPEG)
    \/ UploadSave
    \/ UploadCreate
    \/ UploadSend
    \/ \E i \in 1..MaxListed : Delete(IdPool[i])
    \/ \E limit \in 0..MaxListed, offset \in 0..MaxListed : List(limit, offset)

SpecList == Init /\ [][NextList]_vars

\* The tasks the producer is called with: one per image id.
ProducerTasks ==
    {NewTask(NewImage(id, JoinPath("uploads", id, "jpg"), FormatJPEG, 1920, 1080, 1)) :
        id \in AllIDs}

\* A topic of any number of partitions up to MaxTopicPartitions.
InitProducer ==
    /\ cfg = DefaultConfig
    /\ \E n \in 1..MaxTopicPartitions : InitQueue(n)
    /\ InitRest

\* SendTask calls in any order and number, and the consumer loop handing
\* what it fetches to ProcessImage.
NextProducer ==
    \/ \E task \in ProducerTasks : SendTask(task)
    \/ \E w \in Workers : Fetch(w)
    \/ \E w \in Workers : ProcessGet(w)
    \/ \E w \in Workers : CommitProcessed(w)

SpecProducer == InitProducer /\ [][NextProducer]_vars

\* ------------------------------------------------------------ properties
\* The records on the topic, each by its partition and its index.
Records == UNION {{<<p, i>> : i \in 1..Len(topic[p])} : p \in DOMAIN topic}

\* The records that carry a task for the image, or its id as their key.
RecordsOf(id) ==
    {x \in Records :
        LET rec == topic[x[1]][x[2]]
            um  == Unmarshal(rec.Value)
        IN  rec.Key = id \/ (um.err = NoError /\ um.task.ImageID = id)}

\* Two strings that are equal when the case of their letters is ignored.
SameFold(a, b) ==
    /\ Len(a) = Len(b)
    /\ \A i \in 1..Len(a) :
          \/ a[i] = b[i]
          \/ \E k \in 1..Len(UpperChars) :
                {a[i], b[i]} = {UpperChars[k], LowerChars[k]}

\* A file name whose extension is none of .jpg, .jpeg, .png, .gif.
Unsupported(filename) ==
    \A e \in {DotJpg, DotJpeg, DotPng, DotGif} : ~SameFold(Ext(filename), e)

\* C1: once the status of an image's row is completed or failed, no step of
\* Upload, ProcessImage (a redelivered task included) or Delete makes it
\* pending or processing.
C1_StatusNeverLeavesTerminal ==
    [][\A id \in DOMAIN rows \cap DOMAIN rows' :
          rows[id].Status \in {StatusCompleted, StatusFailed}
             => rows'[id].Status \notin {StatusPending, StatusProcessing}]_vars

\* C2: when ProcessImage returns an error of one of its error paths (blob
\* read, decode, save of either derived blob, registry update) for a task
\* whose row exists, the row's persisted status is failed.
C2_ErrorLeavesRowFailed ==
    ( /\ ret.op = "ProcessImage"
      /\ ret.err \in {ErrReadNotFound, ErrReadOpen, ErrDecode, ErrSaveProcessed,
                      ErrSaveThumbnail, ErrUpdateStatus, ErrUpdateRecord}
      /\ ret.task.ImageID \in DOMAIN rows )
        => rows[ret.task.ImageID].Status = StatusFailed

\* C3: when ProcessImage returns for a fetched and deserialized message,
\* with nil or with an error, the loop goes on to CommitMessages for that
\* message; the call either commits the message's offset and the loop
\* fetches again, or fails and Start returns the commit error.  Start
\* never returns an error of ProcessImage.
C3_CommittedWhateverProcessImageReturned ==
    /\ [](ret.op = "Start" => ret.err \in {ErrCanceled, ErrFetch, ErrCommit})
    /\ [][\A w \in Workers :
            /\ (wpc[w] \in {"get", "mark", "fail", "finalize"}
                    /\ ret'.op = "ProcessImage" /\ ret'.w = w)
                 => /\ wpc'[w] = "commit"
                    /\ wmsg'[w] = wmsg[w]
                    /\ wmsg[w] # Nil
            /\ (wpc[w] = "commit" /\ wpc'[w] # "commit" /\ crashes' = crashes)
                 => \/ /\ ret' = [op |-> "CommitMessages", w |-> w,
                                  msg |-> MsgId(wmsg[w]), after |-> perr[w],
                                  err |-> NoError]
                       /\ committed'[wmsg[w].Partition] = wmsg[w].Offset + 1
                       /\ wpc'[w] = "fetch"
                    \/ /\ ret' = [op |-> "Start", w |-> w, err |-> ErrCommit]
                       /\ committed' = committed
       ]_vars

\* C3's case: a message whose processing failed has been committed and the
\* loop is back at the fetch.
C3_FailedTaskCommitted ==
    /\ ret.op = "CommitMessages"
    /\ ret.after # NoError
    /\ ret.err = NoError
    /\ wpc[ret.w] = "fetch"
    /\ committed[ret.msg[1]] = ret.msg[2] + 1

\* C4: an Upload that returns no error returns an image with status
\* pending, a non-empty id and original path, empty processed and
\* thumbnail paths and a processed width and height of zero.
C4_UploadReturnsPendingImage ==
    (ret.op = "Upload" /\ ret.err = NoError) =>
        /\ ret.img.Status = StatusPending
        /\ ret.img.ID # EmptyString
        /\ ret.img.OriginalPath # EmptyString
        /\ ret.img.ProcessedPath = EmptyString
        /\ ret.img.ThumbnailPath = EmptyString
        /\ ret.img.ProcessedWidth = 0
        /\ ret.img.ProcessedHeight = 0

\* C4's case: an Upload of a decodable picture returned its image.
C4_UploadSucceeded ==
    /\ ret.op = "Upload"
    /\ ret.err = NoError
    /\ ret.req.Filename = NameJPEG
    /\ ret.img.Format = FormatJPEG
    /\ ret.img.OriginalWidth = 1920

C7_MissingBlobEndsFailedAndCommitted ==
    /\ []( ( /\ ret.op = "ProcessImage"
             /\ ret.err = ErrReadNotFound
             /\ wout[ret.w].dropped = NoError
             /\ ret.task.ImageID \in DOMAIN rows )
           => rows[ret.task.ImageID].Status = StatusFailed )
    /\ [][\A w \in Workers :
            /\ (wpc[w] = "read" /\ wpc'[w] # "read" /\ crashes' = crashes
                    /\ wtask[w].ImagePath \notin DOMAIN blobs)
                 => /\ wpc'[w] = "fail"
                    /\ wout'[w].err = ErrReadNotFound
                    /\ wimg'[w].Status = StatusFailed
            /\ (wpc[w] = "fail" /\ wpc'[w] # "fail" /\ crashes' = crashes)
                 => /\ wpc'[w] = "commit"
                    /\ ret'.op = "ProcessImage"
                    /\ ret'.err = wout[w].err
            /\ (wpc[w] = "commit" /\ perr[w] = ErrReadNotFound
                    /\ ret'.op = "CommitMessages" /\ ret'.err = NoError)
                 => committed'[wmsg[w].Partition] = wmsg[w].Offset + 1
            /\ (wmsg'[w] # wmsg[w] /\ wmsg'[w] # Nil)
                 => wmsg'[w].Offset >= committed[wmsg'[w].Partition]
            /\ \A p \in DOMAIN topic : committed'[p] >= committed[p]
       ]_vars

\* C7's case: the task of an image whose original blob is gone and whose
\* row exists has been processed and committed, and the row is failed.
C7_MissingBlobTaskCommitted ==
    /\ ret.op = "CommitMessages"
    /\ ret.after = ErrReadNotFound
    /\ ret.err = NoError
    /\ committed[ret.msg[1]] = ret.msg[2] + 1
    /\ \E id \in DOMAIN rows :
          /\ rows[id].Status = StatusFailed
          /\ rows[id].OriginalPath \notin DOMAIN blobs

\* C8 as stated: an Upload of a file whose extension is none of .jpg,
\* .jpeg, .png, .gif (case ignored) fails with the unsupported-format error.
C8_UnsupportedExtensionFails ==
    (ret.op = "Upload" /\ Unsupported(ret.req.Filename))
        => ret.err = ErrUnsupported

\* C8: an Upload of a file whose declared size does not exceed the maximum
\* and whose extension is none of .jpg, .jpeg, .png, .gif (case ignored)
\* fails with the unsupported-format error, and the step that rejects it
\* leaves the blob store, the registry and the topic unchanged.
C8_UnsupportedExtensionWithinSizeFails ==
    /\ []( ( /\ ret.op = "Upload"
             /\ Unsupported(ret.req.Filename)
             /\ ret.req.Size <= cfg.MaxFileSize )
           => ret.err = ErrUnsupported )
    /\ [][(upc = "idle" /\ ret'.op = "Upload" /\ ret'.err = ErrUnsupported)
             => UNCHANGED <<rows, blobs, topic>>]_vars

\* C8's case: a .bmp file of exactly the maximum size has been rejected
\* while the stores hold an earlier upload.
C8_BmpRejected ==
    /\ ret.op = "Upload"
    /\ ret.err = ErrUnsupported
    /\ ret.req.Filename = <<"d", ".", "b", "m", "p">>
    /\ ret.req.Size = cfg.MaxFileSize
    /\ DOMAIN rows # {}
    /\ DOMAIN blobs # {}

\* C9: Upload returns the payload-too-large error exactly when the declared
\* size is greater than the configured maximum (a size equal to the maximum
\* is not rejected for its size), and the step that rejects it leaves the
\* blob store, the registry and the topic unchanged.
C9_TooLargeExactlyAboveMaximum ==
    /\ [](ret.op = "Upload"
            => (ret.err = ErrFileTooLarge <=> ret.req.Size > cfg.MaxFileSize))
    /\ [][(upc = "idle" /\ ret'.op = "Upload" /\ ret'.err = ErrFileTooLarge)
             => UNCHANGED <<rows, blobs, topic>>]_vars

\* C9's case: a file one byte above the maximum has been rejected while
\* the stores hold an earlier upload.
C9_OneAboveMaximumRejected ==
    /\ ret.op = "Upload"
    /\ ret.err = ErrFileTooLarge
    /\ ret.req.Size = cfg.MaxFileSize + 1
    /\ DOMAIN rows # {}
    /\ DOMAIN blobs # {}

\* C10: when the Save of the original fails, Upload returns an error in
\* that step, with no row created and no task sent; and in every state a
\* row, and a task on the topic, exists only for an id whose original
\* blob Save had returned success.
C10_NoRowWithoutSavedOriginal ==
    /\ [](\A id \in DOMAIN rows : id \in hist.savedOk)
    /\ [](\A x \in Records :
            LET um == Unmarshal(topic[x[1]][x[2]].Value)
            IN  um.err = NoError => um.task.ImageID \in hist.savedOk)
    /\ [][(upc = "save" /\ upc' # "save" /\ uloc.id \notin hist'.savedOk)
             => /\ ret'.op = "Upload"
                /\ ret'.err # NoError
                /\ ret'.img = Nil
                /\ upc' = "idle"
                /\ UNCHANGED <<rows, topic>>]_vars

\* C10's case: the Save of the first upload's original failed and Upload
\* returned the error.
C10_SaveFailed ==
    /\ ret.op = "Upload"
    /\ ret.err = ErrSaveOriginal
    /\ nextId > 1
    /\ IdPool[1] \notin hist.savedOk
    /\ IdPool[1] \notin DOMAIN rows
    /\ Records = {}

\* C11: when SendTask returns an error, Upload returns an error in that
\* step and leaves the registry (the row just created included) and the
\* topic as they are; and in every later state the topic holds no record
\* for that id and the row, unless a Delete has removed it, is pending.
C11_SendFailureLeavesPendingRow ==
    /\ [](\A id \in hist.sendFailed :
            /\ RecordsOf(id) = {}
            /\ id \in DOMAIN rows => rows[id].Status = StatusPending
            /\ id \notin DOMAIN rows => id \in hist.deleted)
    /\ [][(upc = "send" /\ upc' # "send" /\ topic' = topic)
             => /\ ret'.op = "Upload"
                /\ ret'.err # NoError
                /\ ret'.img = Nil
                /\ rows' = rows
                /\ uloc.id \in hist'.sendFailed]_vars

\* C11's case: the SendTask of one upload failed, its row is still pending
\* and without a task, while the image of another upload has been
\* processed to completion.
C11_PendingRowWithoutTask ==
    \E id \in hist.sendFailed :
        /\ id \in DOMAIN rows
        /\ rows[id].Status = StatusPending
        /\ RecordsOf(id) = {}
        /\ \E other \in DOMAIN rows : rows[other].Status = StatusCompleted

\* C12: a Delete that returns nil was called for an existing row and has
\* removed it; a Delete of an existing row returns nil unless a call on
\* the registry fails, whether or not its blobs are still in the store;
\* a Delete of an id without a row (a second Delete) changes nothing and
\* returns the not-found error, or the query's error when the query fails.
C12_DeleteTwice ==
    [][ret'.op = "Delete" =>
         LET id == ret'.id
         IN  /\ ret'.err = NoError => id \in DOMAIN rows /\ id \notin DOMAIN rows'
             /\ (id \in DOMAIN rows /\ faults' = faults) => ret'.err = NoError
             /\ id \notin DOMAIN rows =>
                   /\ UNCHANGED <<rows, blobs, topic>>
                   /\ ret'.err \in {ErrImageNotFound, ErrGetFailed}
                   /\ faults' = faults => ret'.err = ErrImageNotFound
      ]_vars

\* C12's case: a second Delete of an id has returned the not-found error
\* while the store still holds blobs of another image.
C12_SecondDeleteNotFound ==
    /\ ret.op = "Delete"
    /\ ret.err = ErrImageNotFound
    /\ ret.id \in hist.deleted
    /\ DOMAIN rows # {}
    /\ DOMAIN blobs # {}

\* The number of rows created after (at or after) the time c.
NewerThan(c) == Cardinality({id \in DOMAIN rows : rows[id].CreatedAt > c})
NotOlderThan(c) == Cardinality({id \in DOMAIN rows : rows[id].CreatedAt >= c})

\* C13: a List(limit, offset) that returns no error returns rows of the
\* registry, each once, in descending order of created_at, beginning after
\* the first offset rows of that order and at most limit of them (all that
\* are left when fewer are); with the three images created in the order
\* A, B, C in the registry, List(2, 0) returns [C, B].
C13_ListNewestFirst ==
    (ret.op = "List" /\ ret.err = NoError) =>
        LET imgs == ret.images
            n    == Cardinality(DOMAIN rows)
            left == IF n > ret.offset THEN n - ret.offset ELSE 0
        IN  /\ Len(imgs) = IF ret.limit < left THEN ret.limit ELSE left
            /\ \A i \in 1..Len(imgs) :
                  /\ imgs[i].ID \in DOMAIN rows
                  /\ imgs[i] = rows[imgs[i].ID]
                  /\ NewerThan(imgs[i].CreatedAt) <= ret.offset + i - 1
                  /\ ret.offset + i - 1 < NotOlderThan(imgs[i].CreatedAt)
            /\ \A i, j \in 1..Len(imgs) :
                  i < j => /\ imgs[i].ID # imgs[j].ID
                           /\ imgs[i].CreatedAt >= imgs[j].CreatedAt
            /\ ( /\ DOMAIN rows = {IdPool[1], IdPool[2], IdPool[3]}
                 /\ ret.limit = 2
                 /\ ret.offset = 0 )
                  => [i \in 1..Len(imgs) |-> imgs[i].ID] = <<IdPool[3], IdPool[2]>>

\* C13's case: three images are in the registry and List(2, 0) has
\* returned two of them.
C13_ListedTwoOfThree ==
    /\ ret.op = "List"
    /\ ret.err = NoError
    /\ ret.limit = 2
    /\ ret.offset = 0
    /\ Cardinality(DOMAIN rows) = 3
    /\ Len(ret.images) = 2
    /\ ret.images[1].ID = IdPool[3]

\* The record of the topic at a partition and index.
RecordAt(r) == topic[r[1]][r[2]]

\* The records SendTask wrote before the one at place j of the send order
\* and under the same key.
SentBeforeSameKey(j) ==
    {hist.sent[i] : i \in {k \in 1..(j - 1) :
                              RecordAt(hist.sent[k]).Key = RecordAt(hist.sent[j]).Key}}

\* C14: all tasks sent for the same image_id land in the same partition,
\* and the consumer hands them to ProcessImage in the order they were sent,
\* for every number of partitions and every sequence of SendTask calls.
C14_SameKeySamePartitionInOrder ==
    /\ [](\A i, j \in 1..Len(hist.sent) :
            RecordAt(hist.sent[i]).Key = RecordAt(hist.sent[j]).Key
                => hist.sent[i][1] = hist.sent[j][1])
    /\ [][\A w \in Workers :
            (wpc[w] = "fetch" /\ wpc'[w] = "get") =>
                \A j \in 1..Len(hist.sent) :
                    hist.sent[j] = <<wmsg'[w].Partition, wmsg'[w].Offset + 1>>
                        => \A r \in SentBeforeSameKey(j) : r[2] <= pos[r[1]]]_vars

\* Two tasks for one image have been sent.
C14_TwoTasksOfOneImage ==
    \E i, j \in 1..Len(hist.sent) :
        i < j /\ RecordAt(hist.sent[i]).Key = RecordAt(hist.sent[j]).Key

\* No I/O error, no death of a consumer process and no Delete has
\* happened: whatever fails, fails for another reason.
Undisturbed == faults = 0 /\ crashes = 0 /\ hist.deleted = {}

\* C15: a cancellation stops the consumer loop only at a fetch boundary.
\* Once a message is fetched, ProcessImage and the commit have the outcome
\* they have without cancellation (in an undisturbed run: ProcessImage
\* returns nil and the commit succeeds), and Start returns only from the
\* select before a fetch, with the context's error.
C15_CancelOnlyAtFetchBoundary ==
    /\ [](Undisturbed =>
            /\ ret.op = "ProcessImage" => ret.err = NoError
            /\ ret.op = "CommitMessages" => ret.err = NoError
            /\ ret.op = "Start" => ret.err = ErrCanceled)
    /\ [][\A w \in Workers :
            (Undisturbed' /\ wpc[w] # "stopped" /\ wpc'[w] = "stopped")
                => wpc[w] = "fetch" /\ cancelled[w]]_vars

\* The message the worker holds does not decode into a task.
Undecodable(w) == wmsg[w] # Nil /\ Unmarshal(wmsg[w].Value).err # NoError

\* The worker is inside ProcessImage.
InProcessImage(w) ==
    wpc[w] \in {"get", "mark", "read", "save_processed", "save_thumbnail",
                "finalize", "fail"}

\* C16: a message whose payload does not deserialize is committed and
\* dropped without a call of ProcessImage, and the loop goes on to the next
\* fetch; no row changes, and an image whose only records are such
\* messages keeps status pending.  The commit's error is dropped: the
\* offset is committed whenever CommitMessages returns nil.
C16_UndecodableCommittedAndDropped ==
    /\ [](\A w \in Workers : Undecodable(w) => ~InProcessImage(w))
    /\ [](\A id \in AllIDs :
            (/\ id \in DOMAIN rows
             /\ RecordsOf(id) # {}
             /\ \A x \in RecordsOf(id) : Unmarshal(RecordAt(x).Value).err # NoError)
                => rows[id].Status = StatusPending)
    /\ [][\A w \in Workers :
            (Undecodable(w) /\ wpc'[w] # wpc[w] /\ crashes' = crashes) =>
                /\ wpc[w] = "commit_undecoded"
                /\ wpc'[w] = "fetch"
                /\ rows' = rows
                /\ blobs' = blobs
                /\ ret'.op = "CommitMessages"
                /\ ret'.msg = MsgId(wmsg[w])
                /\ ret'.err = NoError =>
                       committed'[wmsg[w].Partition] = wmsg[w].Offset + 1]_vars

\* An undecodable message keyed by the id of a pending image has been
\* committed, and the loop is back at the fetch.
C16_GarbageForPendingImageCommitted ==
    \E id \in AllIDs :
        /\ id \in DOMAIN rows
        /\ rows[id].Status = StatusPending
        /\ ret.op = "CommitMessages"
        /\ ret.err = NoError
        /\ \A x \in RecordsOf(id) : Unmarshal(RecordAt(x).Value).err # NoError
        /\ \E x \in RecordsOf(id) :
              /\ ret.msg = <<x[1], x[2] - 1>>
              /\ committed[x[1]] = x[2]
        /\ \A w \in Workers : wpc[w] = "fetch"

\* ProcessImage returns to the loop only for the task decoded from the
\* message the worker holds.
ProcessImageReturnsForHeldMessage ==
    \A w \in Workers :
        (wpc'[w] = "commit" /\ wpc[w] # "commit") =>
            /\ ret'.op = "ProcessImage"
            /\ wmsg'[w] = wmsg[w]
            /\ Unmarshal(wmsg[w].Value).err = NoError
            /\ ret'.task = Unmarshal(wmsg[w].Value).task

\* C17 as stated: every message the consumer commits was handed to
\* ProcessImage, which returned, before the commit.
C17_CommittedOnlyAfterProcessImage ==
    [][/\ ProcessImageReturnsForHeldMessage
       /\ \A p \in DOMAIN topic :
            committed'[p] # committed[p] =>
                \E w \in Workers :
                    /\ wmsg[w] # Nil
                    /\ wmsg[w].Partition = p
                    /\ committed'[p] = wmsg[w].Offset + 1
                    /\ wpc[w] = "commit"]_vars

\* C17: every message the consumer commits either did not deserialize, or
\* was handed to ProcessImage, which returned, before the commit.
C17_CommittedAfterProcessImageOrUndecodable ==
    [][/\ ProcessImageReturnsForHeldMessage
       /\ \A p \in DOMAIN topic :
            committed'[p] # committed[p] =>
                \E w \in Workers :
                    /\ wmsg[w] # Nil
                    /\ wmsg[w].Partition = p
                    /\ committed'[p] = wmsg[w].Offset + 1
                    /\ \/ wpc[w] = "commit"
                       \/ wpc[w] = "commit_undecoded" /\ Undecodable(w)]_vars

\* A task and an undecodable record have both been committed.
C17_TaskAndGarbageCommitted ==
    /\ ret.op = "CommitMessages"
    /\ ret.err = NoError
    /\ \E x, y \in Records :
          /\ x[2] <= committed[x[1]]
          /\ y[2] <= committed[y[1]]
          /\ Unmarshal(RecordAt(x).Value).err = NoError
          /\ Unmarshal(RecordAt(y).Value).err # NoError

\* The worker holds a fetched message whose commit has not returned.
InFlight(w) == wpc[w] \notin {"fetch", "stopped"}

\* Messages of the partition are delivered again: the reader's position
\* falls back.
Redelivers(p) == pos'[p] < pos[p]

\* C18 as stated: a message is delivered a second time only if the
\* consumer process died between fetching and committing it.
C18_RedeliveryOnlyAfterCrashInFlight ==
    [][\A p \in DOMAIN topic :
        Redelivers(p) =>
            /\ crashes' = crashes + 1
            /\ pos'[p] = committed[p]
            /\ InFlight(owner[p])
            /\ wmsg[owner[p]].Partition = p]_vars

\* C18: a message is delivered a second time only if the consumer that
\* fetched it ended before its commit succeeded and is started again: the
\* process died between the fetch and the commit, or CommitMessages
\* returned an error and Start returned with it.
C18_RedeliveryOnlyOfUncommitted ==
    [][\A p \in DOMAIN topic :
        /\ Redelivers(p) =>
              /\ crashes' = crashes + 1
              /\ pos'[p] = committed[p]
              /\ \/ InFlight(owner[p]) /\ wmsg[owner[p]].Partition = p
                 \/ wpc[owner[p]] = "stopped"
        /\ (wpc'[owner[p]] = "stopped" /\ wpc[owner[p]] # "stopped"
                /\ pos'[p] > committed'[p]) =>
              /\ wpc[owner[p]] = "commit"
              /\ ret'.op = "Start"
              /\ ret'.err = ErrCommit
        /\ (wpc'[owner[p]] = "fetch" /\ crashes' = crashes) =>
              pos'[p] = committed'[p]]_vars

\* The consumer process died once, the task was delivered again, every
\* record is committed and the loop waits at the fetch, and the row is
\* left in status processing.
C18_StuckProcessingAfterRedelivery ==
    /\ crashes > 0
    /\ \A w \in Workers : wpc[w] = "fetch"
    /\ \E id \in DOMAIN rows :
          /\ rows[id].Status = StatusProcessing
          /\ RecordsOf(id) # {}
          /\ \A x \in RecordsOf(id) :
                x[2] <= committed[x[1]] /\ <<x[1], x[2] - 1>> \in hist.unacked
    /\ upc = "idle"

\* C19: a registry row whose status is pending, processing or failed has
\* processed_width = 0 and processed_height = 0, also when a task of an
\* image that is already completed is delivered again.
C19_UnfinishedRowHasNoProcessedSize ==
    \A id \in DOMAIN rows :
        rows[id].Status \in {StatusPending, StatusProcessing, StatusFailed}
            => rows[id].ProcessedWidth = 0 /\ rows[id].ProcessedHeight = 0

\* The row of the image carries a derived path.
HasDerivedPath(tbl, id) ==
    /\ id \in DOMAIN tbl
    /\ tbl[id].ProcessedPath # EmptyString \/ tbl[id].ThumbnailPath # EmptyString

\* C20: a registry row has a non-empty processed_path or thumbnail_path
\* only if a ProcessImage run for the image has written both derived blobs
\* and persisted status completed: a row gets its first derived path in the
\* step in which a run that holds a task of the image, having saved both
\* blobs, persists the completed record.
C20_DerivedPathsOnlyAfterCompletedRun ==
    [][\A id \in AllIDs :
        (HasDerivedPath(rows', id) /\ ~HasDerivedPath(rows, id)) =>
            \E w \in Workers :
                /\ wpc[w] = "finalize"
                /\ wtask[w].ImageID = id
                /\ ret'.op = "ProcessImage"
                /\ ret'.err = NoError
                /\ id \in DOMAIN rows
                /\ rows'[id].Status = StatusCompleted
                /\ rows'[id].ProcessedPath \in DOMAIN blobs
                /\ rows'[id].ThumbnailPath \in DOMAIN blobs
                /\ blobs[rows'[id].ProcessedPath] =
                      Pic(wtask[w].Format, rows'[id].ProcessedWidth,
                          rows'[id].ProcessedHeight)
                /\ blobs[rows'[id].ThumbnailPath].enc = wtask[w].Format]_vars

\* A row carries both derived paths while its task runs a second time.
C20_DerivedPathsWhileProcessingAgain ==
    \E id \in DOMAIN rows :
        /\ rows[id].ProcessedPath # EmptyString
        /\ rows[id].ThumbnailPath # EmptyString
        /\ rows[id].Status = StatusProcessing

\* C21: no operation changes the id, original_path, format,
\* original_width, original_height or created_at of a row that exists:
\* every Update of ProcessImage leaves these columns as Create wrote them.
C21_CreatedColumnsNeverChange ==
    [][\A id \in DOMAIN rows \cap DOMAIN rows' :
        /\ rows'[id].ID = rows[id].ID
        /\ rows'[id].ID = id
        /\ rows'[id].OriginalPath = rows[id].OriginalPath
        /\ rows'[id].Format = rows[id].Format
        /\ rows'[id].OriginalWidth = rows[id].OriginalWidth
        /\ rows'[id].OriginalHeight = rows[id].OriginalHeight
        /\ rows'[id].CreatedAt = rows[id].CreatedAt]_vars

\* ProcessImage has returned nil: the row went through the Updates to
\* processing and to completed.
C21_RowUpdatedToCompleted ==
    /\ ret.op = "ProcessImage"
    /\ ret.err = NoError
    /\ ret.task.ImageID \in DOMAIN rows
    /\ rows[ret.task.ImageID].Status = StatusCompleted
    /\ rows[ret.task.ImageID].OriginalWidth = 1920

\* C22: when ProcessImage returns nil, the row of the image has status
\* completed, processed_path = processed/<id><ext> and thumbnail_path =
\* thumbnail/<id><ext>, and the store holds a blob at each of the two paths.
C22_SuccessLeavesCompletedRowAndBlobs ==
    (ret.op = "ProcessImage" /\ ret.err = NoError) =>
        LET id  == ret.task.ImageID
            ext == getExtension(ret.task.Format)
        IN  /\ id \in DOMAIN rows
            /\ rows[id].Status = StatusCompleted
            /\ rows[id].ProcessedPath = JoinPath("processed", id, ext)
            /\ rows[id].ThumbnailPath = JoinPath("thumbnail", id, ext)
            /\ JoinPath("processed", id, ext) \in DOMAIN blobs
            /\ JoinPath("thumbnail", id, ext) \in DOMAIN blobs

\* The path Delete removes at each of its positions.
DeletePathAt(at) ==
    CASE at = "rm_original"  -> dloc.img.OriginalPath
      [] at = "rm_processed" -> dloc.img.ProcessedPath
      [] at = "rm_thumbnail" -> dloc.img.ThumbnailPath

\* The position of Delete after each of its blob removals.
DeleteAfter(at) ==
    CASE at = "rm_original"  -> "rm_processed"
      [] at = "rm_processed" -> "rm_thumbnail"
      [] at = "rm_thumbnail" -> "rm_row"

\* C23: Delete removes the original, the processed and the thumbnail blob,
\* in this order, before it removes the row, and goes on to remove the row
\* whether the removals of the blobs failed or not.
C23_BlobsBeforeRowWhateverFails ==
    [][/\ \A at \in {"rm_original", "rm_processed", "rm_thumbnail"} :
            (dpc = at /\ dpc' # at) =>
                /\ dpc' = DeleteAfter(at)
                /\ dloc' = dloc
                /\ rows' = rows
                /\ faults' = faults => DeletePathAt(at) \notin DOMAIN blobs'
       /\ \A path \in DOMAIN blobs \ DOMAIN blobs' :
            /\ dpc \in {"rm_original", "rm_processed", "rm_thumbnail"}
            /\ path = DeletePathAt(dpc)
       /\ \A id \in DOMAIN rows \ DOMAIN rows' :
            dpc = "rm_row" /\ dloc.id = id
       /\ (dpc = "rm_row" /\ dpc' # "rm_row") =>
            /\ ret'.op = "Delete"
            /\ faults' = faults =>
                  ret'.err = NoError /\ dloc.id \notin DOMAIN rows'
       /\ (dpc' = "rm_row" /\ dpc # "rm_row") => dpc = "rm_thumbnail"]_vars

\* Delete has returned nil and the row is gone, while the original blob,
\* whose removal failed, is still in the store.
C23_RowRemovedAfterFailedBlobRemoval ==
    /\ ret.op = "Delete"
    /\ ret.err = NoError
    /\ ret.id \notin DOMAIN rows
    /\ ret.id \in hist.deleted
    /\ faults > 0
    /\ \E path \in DOMAIN blobs : path[1] = "original" /\ path[2] = ret.id

\* C24: the consumer commits a message only after ProcessImage returned
\* nil for it; a task whose processing failed stays uncommitted, so that it
\* is delivered again.
C24_CommittedOnlyAfterSuccess ==
    /\ [](ret.op = "CommitMessages" => ret.after = NoError)
    /\ [][\A w \in Workers :
            (wpc[w] = "commit" /\ perr[w] # NoError)
                => committed'[wmsg[w].Partition] <= wmsg[w].Offset]_vars

\* The original blobs in the store whose bytes do not decode in the format
\* of their extension.
UndecodableOriginals(store) ==
    {path \in DOMAIN store :
        /\ path[1] = "original"
        /\ ~decodeImage(store[path], parseFormat(path[3]).format).ok}

\* C25: when the decode of the uploaded file fails, Upload returns an
\* error, creates no row and sends no task, and the original blob written
\* before the decode stays in the store: no row and no task exists for its
\* id, and nothing removes it.
C25_DecodeFailureOrphansOriginal ==
    /\ [](\A path \in UndecodableOriginals(blobs) :
            path[2] \notin DOMAIN rows /\ RecordsOf(path[2]) = {})
    /\ [][/\ (upc = "save" /\ ret'.op = "Upload" /\ ret'.err = ErrDecode)
                => /\ ret'.img = Nil
                   /\ upc' = "idle"
                   /\ rows' = rows
                   /\ topic' = topic
                   /\ uloc.originalPath \in UndecodableOriginals(blobs')
                   /\ blobs'[uloc.originalPath] = ureq.Bytes
          /\ (upc = "save" /\ upc' # "save" /\ faults' = faults
                 /\ ~decodeImage(ureq.Bytes, uloc.format).ok)
                => (ret'.op = "Upload" /\ ret'.err = ErrDecode)
          /\ \A path \in UndecodableOriginals(blobs) :
                 path \in DOMAIN blobs' /\ blobs'[path] = blobs[path]]_vars

\* An upload of PNG bytes under a JPEG name has failed in the decode and
\* its original is in the store.
C25_DecodeFailed ==
    /\ ret.op = "Upload"
    /\ ret.err = ErrDecode
    /\ UndecodableOriginals(blobs) # {}
    /\ \A path \in UndecodableOriginals(blobs) : blobs[path] = PicPNG

\* C26: within one Upload the blob write, the decode, the registry insert
\* and the enqueue happen in this order, each only after the one before
\* succeeded; so every task on the topic is for an image whose row had
\* been inserted before the task was sent (the row is in the registry, or
\* a Delete has removed it since).
C26_UploadStepsInOrder ==
    /\ [](\A x \in Records :
            LET um == Unmarshal(RecordAt(x).Value)
            IN  um.err = NoError =>
                  \/ um.task.ImageID \in DOMAIN rows
                  \/ um.task.ImageID \in hist.deleted)
    /\ [][/\ (upc' = "save" /\ upc # "save") => upc = "idle"
          /\ (upc' = "create" /\ upc # "create")
                => /\ upc = "save"
                   /\ faults' = faults
                   /\ uloc.originalPath \in DOMAIN blobs'
                   /\ blobs'[uloc.originalPath] = ureq.Bytes
                   /\ decodeImage(ureq.Bytes, uloc.format).ok
                   /\ rows' = rows
                   /\ topic' = topic
          /\ (upc' = "send" /\ upc # "send")
                => /\ upc = "create"
                   /\ faults' = faults
                   /\ uloc.id \notin DOMAIN rows
                   /\ uloc.id \in DOMAIN rows'
                   /\ rows'[uloc.id] = uloc.image
                   /\ topic' = topic
          /\ (topic' # topic)
                => /\ upc = "send"
                   /\ faults' = faults
                   /\ \E p \in DOMAIN topic :
                         topic' = [topic EXCEPT ![p] =
                                     Append(@, TaskMessage(NewTask(uloc.image)))]
                   /\ uloc.image.ID = uloc.id
                   /\ ret'.op = "Upload"
                   /\ ret'.err = NoError]_vars

\* An Upload has returned its image: the blob, the row and the task are
\* there.
C26_UploadWentThroughAllSteps ==
    /\ ret.op = "Upload"
    /\ ret.err = NoError
    /\ ret.img.ID \in DOMAIN rows
    /\ ret.img.OriginalPath \in DOMAIN blobs
    /\ \E x \in Records : RecordAt(x) = TaskMessage(NewTask(ret.img))

\* C27: ProcessImage for a task whose image_id has no row returns an error
\* from the lookup, writes neither the registry nor the blob store, and the
\* loop goes on to commit the message, which CommitMessages does unless it
\* fails itself.
C27_MissingRowFailsWithoutWrites ==
    [][\A w \in Workers :
        /\ (/\ wpc[w] = "get"
            /\ wpc'[w] # "get"
            /\ crashes' = crashes
            /\ wtask[w].ImageID \notin DOMAIN rows)
              => /\ ret'.op = "ProcessImage"
                 /\ ret'.task = wtask[w]
                 /\ ret'.err \in {ErrGetImage, ErrGetImageQuery}
                 /\ faults' = faults => ret'.err = ErrGetImage
                 /\ rows' = rows
                 /\ blobs' = blobs
                 /\ wpc'[w] = "commit"
                 /\ wmsg'[w] = wmsg[w]
        /\ (/\ wpc[w] = "commit"
            /\ wpc'[w] # "commit"
            /\ crashes' = crashes
            /\ faults' = faults
            /\ perr[w] = ErrGetImage)
              => /\ ret'.op = "CommitMessages"
                 /\ ret'.err = NoError
                 /\ committed'[wmsg[w].Partition] = wmsg[w].Offset + 1
                 /\ wpc'[w] = "fetch"
                 /\ rows' = rows
                 /\ blobs' = blobs]_vars

\* The task of a deleted image has been handed to ProcessImage, which
\* returned the lookup's error, and its message is committed.
C27_TaskOfDeletedImageCommitted ==
    /\ ret.op = "CommitMessages"
    /\ ret.after = ErrGetImage
    /\ ret.err = NoError
    /\ committed[ret.msg[1]] = ret.msg[2] + 1
    /\ \E x \in Records :
          /\ x = <<ret.msg[1], ret.msg[2] + 1>>
          /\ Unmarshal(RecordAt(x).Value).task.ImageID \in hist.deleted

\* The extension of a blob path.
PathExt(path) == path[3]

\* C28: the derived blobs of an image are written with the extension of
\* its original blob: the extension in processed_path and thumbnail_path
\* is the one in original_path, and a derived blob in the store has the
\* extension of the original path of its image's row.
C28_DerivedExtensionIsOriginalExtension ==
    \A id \in DOMAIN rows :
        /\ rows[id].ProcessedPath # EmptyString
              => PathExt(rows[id].ProcessedPath) = PathExt(rows[id].OriginalPath)
        /\ rows[id].ThumbnailPath # EmptyString
              => PathExt(rows[id].ThumbnailPath) = PathExt(rows[id].OriginalPath)
        /\ \A path \in DOMAIN blobs :
              (path[1] \in {"processed", "thumbnail"} /\ path[2] = id)
                  => PathExt(path) = PathExt(rows[id].OriginalPath)

\* The four steps of the shutdown, in their order.
ShutdownSteps == <<"cancel", "http", "consumer", "db">>

\* C29: on the shutdown signal App.Start cancels the consumer's context,
\* shuts the HTTP server down, closes the Kafka consumer and closes the
\* database pool, in this order, and has made all four steps whenever it
\* returns.
C29_ShutdownMakesAllFourSteps ==
    /\ [](\E n \in 0..Len(ShutdownSteps) : app.steps = SubSeq(ShutdownSteps, 1, n))
    /\ [](app.pc = "returned" => app.steps = ShutdownSteps)

\* The loop w holds a message whose ProcessImage run has returned nil.
RunSucceeded(w) == wpc[w] = "commit" /\ perr[w] = NoError

\* Two loops hold ProcessImage runs for one image that both returned nil.
BothRunsSucceeded(a, b) ==
    /\ a # b
    /\ RunSucceeded(a)
    /\ RunSucceeded(b)
    /\ wtask[a].ImageID = wtask[b].ImageID

\* C30: when two ProcessImage runs for one image id have interleaved in any
\* order and both have returned nil, the image's row has status completed,
\* both derived paths set, and the configured processed width and height.
C30_TwoRunsLeaveCompletedRow ==
    \A a, b \in DOMAIN wpc :
        BothRunsSucceeded(a, b)
        => LET id == wtask[a].ImageID
           IN  /\ id \in DOMAIN rows
               /\ rows[id].Status = StatusCompleted
               /\ rows[id].ProcessedPath # EmptyString
               /\ rows[id].ThumbnailPath # EmptyString
               /\ rows[id].ProcessedWidth = cfg.ProcessedWidth
               /\ rows[id].ProcessedHeight = cfg.ProcessedHeight

\* Two runs for one image have both returned nil, each on its own message.
C30_BothRunsReturnedNil ==
    \E a, b \in DOMAIN wpc :
        /\ BothRunsSucceeded(a, b)
        /\ MsgId(wmsg[a]) # MsgId(wmsg[b])

\* C31: in every state, however the ProcessImage runs interleave, a row
\* with status completed has a processed path and a thumbnail path that are
\* not empty and a processed width and height that are not zero.
C31_CompletedRowIsFilled ==
    \A id \in DOMAIN rows :
        rows[id].Status = StatusCompleted
        => /\ rows[id].ProcessedPath # EmptyString
           /\ rows[id].ThumbnailPath # EmptyString
           /\ rows[id].ProcessedWidth # 0
           /\ rows[id].ProcessedHeight # 0

\* A row is completed while another run for the image, which loaded the
\* row before it was completed, is about to mark it processing.
C31_CompletedWhileStaleRunMarks ==
    \E id \in DOMAIN rows :
        /\ rows[id].Status = StatusCompleted
        /\ \E w \in DOMAIN wpc :
              /\ wpc[w] = "mark"
              /\ wimg[w].ID = id
              /\ wimg[w].ProcessedPath = EmptyString

\* The blobs at the row's processed path and thumbnail path are in the store.
DerivedPresent(id) ==
    /\ rows[id].ProcessedPath \in DOMAIN blobs
    /\ rows[id].ThumbnailPath \in DOMAIN blobs

\* C32 as stated: in every state, in the middle of a Delete or of a
\* concurrent ProcessImage too, a row with status completed has blobs in the
\* store at its processed path and at its thumbnail path.
C32_CompletedRowHasBlobs ==
    \A id \in DOMAIN rows :
        rows[id].Status = StatusCompleted => DerivedPresent(id)

\* C32: in every state, in the middle of a ProcessImage run too, a row with
\* status completed has blobs in the store at its processed path and at its
\* thumbnail path, as long as no Delete of the image has loaded the row to
\* remove its blobs.
C32_CompletedRowHasBlobsUntilDelete ==
    \A id \in DOMAIN rows :
        (rows[id].Status = StatusCompleted /\ id \notin hist.unlinked)
        => DerivedPresent(id)

\* A completed row with its blobs while a Delete is in the middle of
\* removing the blobs of another image.
C32_CompletedDuringDeleteOfAnother ==
    \E id \in DOMAIN rows :
        /\ rows[id].Status = StatusCompleted
        /\ id \notin hist.unlinked
        /\ dpc = "rm_thumbnail"
        /\ dloc.id # id

\* The blobs in the store whose file name stem is the id.
BlobsOf(store, id) == {path \in DOMAIN store : path[2] = id}

\* A ProcessImage run for the image is under way.
RunUnderWay(id) ==
    \E w \in DOMAIN wpc : InProcessImage(w) /\ wtask[w].ImageID = id

\* C33: when Delete(id) has run concurrently with a ProcessImage run for
\* the id and both have finished, the store holds no blob whose file name
\* stem is the id.  (No call returns an error and no consumer dies: the
\* Delete has removed the row, and no run for the id and no Delete is
\* under way.)
C33_NoBlobLeftAfterDeleteAndRun ==
    \A id \in hist.deleted :
        (faults = 0 /\ crashes = 0 /\ dpc = "idle" /\ ~RunUnderWay(id))
        => BlobsOf(blobs, id) = {}

\* The loop is about to call imageRepo.Update for an image whose row a
\* Delete has removed.
UpdatesDeleted(w) ==
    /\ wpc[w] \in {"mark", "finalize", "fail"}
    /\ wimg[w].ID \in hist.deleted

\* C34: once Delete has removed the row of an id, no row with the id
\* exists again; an Update that a ProcessImage run under way issues for the
\* id changes no row, and it returns no error unless the call itself fails
\* (an I/O error or the cancelled context).  A loop that dies issues no
\* Update.
C34_DeletedRowNeverReturns ==
    /\ [](\A id \in hist.deleted : id \notin DOMAIN rows)
    /\ [][\A w \in DOMAIN wpc :
            (UpdatesDeleted(w) /\ wpc'[w] # wpc[w] /\ crashes' = crashes)
            => /\ rows' = rows
               /\ (faults' = faults /\ ~cancelled[w])
                  => \/ wpc[w] = "mark" /\ wpc'[w] = "read"
                     \/ wpc[w] = "finalize" /\ perr'[w] = NoError
                     \/ wpc[w] = "fail" /\ wout'[w].dropped = NoError]_vars

\* A ProcessImage run has returned nil for an image whose row a Delete had
\* removed before the run's last Update.
C34_RunFinishedAfterDelete ==
    /\ ret.op = "ProcessImage"
    /\ ret.err = NoError
    /\ ret.task.ImageID \in hist.deleted

\* Upload has just returned the image with the id.
UploadReturned(id) ==
    ret.op = "Upload" /\ ret.err = NoError /\ ret.img.ID = id

\* The row of the id has status completed or failed.
Settled(id) ==
    /\ id \in DOMAIN rows
    /\ rows[id].Status \in {StatusCompleted, StatusFailed}

\* No call of the queue, the registry or the blob store ever returns an
\* error and no consumer process ever dies.
NoErrorEver == [](faults = 0 /\ crashes = 0)

\* C35 as stated: if no call returns an error, no consumer dies and the
\* loop is scheduled fairly and not cancelled, every image a successful
\* Upload returned eventually has status completed or failed.
C35_UploadedEventuallySettled ==
    NoErrorEver => \A id \in AllIDs : UploadReturned(id) ~> Settled(id)

\* C35: if no call returns an error, no consumer dies and the loop is
\* scheduled fairly and not cancelled, every image a successful Upload
\* returned eventually has status completed or failed, or a Delete has
\* removed its row.
C35_UploadedEventuallySettledOrDeleted ==
    NoErrorEver
    => \A id \in AllIDs :
          UploadReturned(id) ~> (Settled(id) \/ id \in hist.deleted)

\* Every uploaded image has been processed to the end with no error and
\* no crash on the way.
C35_AllUploadedCompleted ==
    /\ faults = 0
    /\ crashes = 0
    /\ DOMAIN rows = AllIDs
    /\ \A id \in AllIDs : rows[id].Status = StatusCompleted

\* Every consumer loop of the process has returned.
LoopsEnded == \A w \in DOMAIN wpc : wpc[w] = "stopped"

\* C36: Start returns only on cancellation, on a fetch error, or on a
\* commit error after ProcessImage; a commit error on the path of a message
\* that does not deserialize does not end the loop.  A loop that has
\* returned is not started again in the life of the process, and while it
\* is ended the rows uploads create are pending and no row changes its
\* status.
C36_LoopEndsForGoodOnFetchOrCommitError ==
    /\ [](ret.op = "Start"
            => /\ ret.err \in {ErrCanceled, ErrFetch, ErrCommit}
               /\ wpc[ret.w] = "stopped")
    /\ [][\A w \in DOMAIN wpc :
            /\ (wpc[w] # "stopped" /\ wpc'[w] = "stopped")
               => /\ wpc[w] \in {"fetch", "commit"}
                  /\ ret'.op = "Start"
                  /\ wpc[w] = "fetch" => ret'.err \in {ErrCanceled, ErrFetch}
                  /\ wpc[w] = "commit" => ret'.err = ErrCommit
                  /\ ret'.err = ErrCanceled => cancelled[w]
            /\ (wpc[w] = "commit_undecoded" /\ crashes' = crashes)
               => wpc'[w] \in {"commit_undecoded", "fetch"}
            /\ (wpc[w] = "stopped" /\ crashes' = crashes)
               => wpc'[w] = "stopped"]_vars
    /\ [][(LoopsEnded /\ crashes' = crashes)
            => \A id \in DOMAIN rows' :
                  IF id \in DOMAIN rows
                  THEN rows'[id].Status = rows[id].Status
                  ELSE rows'[id].Status = StatusPending]_vars

\* The loop has returned for a fetch or commit error and was not started
\* again, and an Upload has returned an image since, which is pending with
\* its task unfetched.
C36_UploadedAfterLoopEnded ==
    /\ LoopsEnded
    /\ crashes = 0
    /\ \A w \in DOMAIN wpc : ~cancelled[w]
    /\ ret.op = "Upload"
    /\ ret.err = NoError
    /\ rows[ret.img.ID].Status = StatusPending
    /\ \E p \in DOMAIN topic : pos[p] < Len(topic[p])

\* The row of the id, or Nil.
RowOf(tbl, id) == IF id \in DOMAIN tbl THEN tbl[id] ELSE Nil

\* The blobs of the id with what they hold.
FilesOf(store, id) == [path \in BlobsOf(store, id) |-> store[path]]

\* The ids whose row or whose blobs the step changes.
Touched ==
    {id \in AllIDs :
        \/ RowOf(rows', id) # RowOf(rows, id)
        \/ FilesOf(blobs', id) # FilesOf(blobs, id)}

\* The ids of the calls that make the step: the Upload, the Delete or the
\* ProcessImage run that moves.
StepIds ==
    (IF upc # "idle" /\ upc' # upc THEN {uloc.id} ELSE {})
    \cup (IF dpc # "idle" /\ dpc' # dpc THEN {dloc.id} ELSE {})
    \cup (IF ret'.op = "Delete" THEN {ret'.id} ELSE {})
    \cup {wtask[w].ImageID :
            w \in {v \in DOMAIN wpc : InProcessImage(v) /\ wpc'[v] # wpc[v]}}

\* C37: Upload, ProcessImage and Delete for one image id leave the rows and
\* the blobs of every other image id unchanged: a step changes the row and
\* the blobs of no id but that of the call that makes it.
C37_OtherImagesUntouched == [][Touched \subseteq StepIds]_vars

\* One image has been deleted and the other is completed with its three
\* blobs in the store.
C37_OneDeletedOtherCompleted ==
    \E id \in DOMAIN rows :
        /\ hist.deleted # {}
        /\ id \notin hist.unlinked
        /\ rows[id].Status = StatusCompleted
        /\ Cardinality(BlobsOf(blobs, id)) = 3

\* The blobs of the id under processed/ and thumbnail/.
DerivedBlobsOf(store, id) ==
    {path \in BlobsOf(store, id) : path[1] \in {"processed", "thumbnail"}}

\* C38: a ProcessImage run that ends with the row in status failed leaves
\* no derived blob of the image in the store; when the save of the
\* thumbnail fails after the processed blob was saved, no blob remains at
\* processed/<id><ext>.  (The task's first delivery: no consumer has died.)
C38_FailedRunLeavesNoDerivedBlob ==
    (/\ ret.op = "ProcessImage"
     /\ ret.err # NoError
     /\ crashes = 0
     /\ ret.task.ImageID \in DOMAIN rows
     /\ rows[ret.task.ImageID].Status = StatusFailed)
    => DerivedBlobsOf(blobs, ret.task.ImageID) = {}

\* App.Start has closed the database pool.
PoolClosed == \E i \in 1..Len(app.steps) : app.steps[i] = "db"

\* C39: during shutdown the database pool is closed only after the consumer
\* loop has returned: when the pool is closed no ProcessImage run is under
\* way, and once the loop has returned no row is left in status processing
\* by the shutdown (no call has returned an I/O error and no consumer has
\* died).
C39_PoolClosedAfterLoopReturned ==
    /\ PoolClosed => LoopsEnded
    /\ PoolClosed => \A w \in DOMAIN wpc : ~InProcessImage(w)
    /\ (PoolClosed /\ LoopsEnded /\ faults = 0 /\ crashes = 0)
       => \A id \in DOMAIN rows : rows[id].Status # StatusProcessing
====
